---- MODULE Spec2Model ----
(***************************************************************************)
(* State-machine model of the chess engine of Penguinfish-Chess-bot       *)
(* (src/lib/chess-engine.ts): the game state, pseudo-legal move           *)
(* generation, the legality filter, makeMove and the query operations.    *)
(*                                                                         *)
(* Board convention of the source: row 0 is black's back rank, row 7 is   *)
(* white's back rank, col 0 is the a-file.  e1 = (7,4), e8 = (0,4).        *)
(*                                                                         *)
(* A JavaScript call that recurses without end overflows the call stack   *)
(* and raises a RangeError; the engine has no catch clause, so the error  *)
(* leaves the public operation.  The model gives every operation that can *)
(* recurse a third outcome, "X" (div = TRUE), for that exception.         *)
(***************************************************************************)
EXTENDS Integers, FiniteSets, Sequences, TLC

(***************************************************************************)
(* Bounds of the exploration (not program constants).                     *)
(***************************************************************************)
\* successful makeMove calls explored from a starting position
MaxPly == 2
\* calls of public operations explored from a starting position, when the
\* caller may pass any move
MaxCalls == 1

Rows == 0..7
Cols == 0..7

Colors == {"white", "black"}
PromotionPieces == {"queen", "rook", "bishop", "knight"}

\* Piece | null : null is the record NoPiece
Pc(t, c) == [type |-> t, color |-> c]
NoPiece == Pc("none", "none")

\* Position | null : null is the record NoPos
Pos(r, c) == [row |-> r, col |-> c]
NoPos == Pos(-1, -1)

Opponent(c) == IF c = "white" THEN "black" ELSE "white"

\* Move: optional fields that are absent (or null, or false) in the source
\* object read as NoPiece / FALSE / "none" / NoPos here; the source only
\* ever tests them for truthiness.
Mv(from, to, piece, cap, ep, castle, promo, ept) ==
  [from |-> from, to |-> to, piece |-> piece, capturedPiece |-> cap,
   isEnPassant |-> ep, isCastling |-> castle, promotionPiece |-> promo,
   enPassantTarget |-> ept]

\* lastMove: null
NoMove == Mv(NoPos, NoPos, NoPiece, NoPiece, FALSE, FALSE, "none", NoPos)

Abs(n) == IF n < 0 THEN -n ELSE n

\* `const x = v; return F(x)`: v is evaluated once, then F on its value
Eval(v, F(_)) == CHOOSE r \in { F(x) : x \in {v} } : TRUE

isValidPosition(pos) ==
  pos.row >= 0 /\ pos.row < 8 /\ pos.col >= 0 /\ pos.col < 8

getPiece(board, pos) ==
  IF ~isValidPosition(pos) THEN NoPiece ELSE board[pos.row][pos.col]

setPiece(board, pos, piece) ==
  IF isValidPosition(pos) THEN [board EXCEPT ![pos.row][pos.col] = piece]
  ELSE board

\* JSON.parse(JSON.stringify(x)) on a GameState: every field is a string, a
\* number, a boolean, null, or an object/array of these, so the round trip
\* rebuilds the same value field by field.
JsonCopy(state) ==
  [board |-> [r \in Rows |-> [c \in Cols |-> state.board[r][c]]],
   turn |-> state.turn,
   lastMove |-> state.lastMove,
   castlingRights |-> [k \in DOMAIN state.castlingRights |-> state.castlingRights[k]],
   enPassantTarget |-> Pos(state.enPassantTarget.row, state.enPassantTarget.col),
   halfMoveClock |-> state.halfMoveClock,
   fullMoveNumber |-> state.fullMoveNumber]

copyState(state) == JsonCopy(state)

setState(state) == JsonCopy(state)

(***************************************************************************)
(* Pseudo-legal move generation                                            *)
(***************************************************************************)
generatePawnMoves(state, from, piece) ==
  LET b == state.board
      direction == IF piece.color = "white" THEN -1 ELSE 1
      startRow == IF piece.color = "white" THEN 6 ELSE 1
      promotionRow == IF piece.color = "white" THEN 0 ELSE 7
      oneStep == Pos(from.row + direction, from.col)
      twoSteps == Pos(from.row + 2 * direction, from.col)
      oneFree == isValidPosition(oneStep) /\ getPiece(b, oneStep) = NoPiece
      forward ==
        IF ~oneFree THEN {}
        ELSE IF oneStep.row = promotionRow
             THEN {Mv(from, oneStep, piece, NoPiece, FALSE, FALSE, pp, NoPos) :
                     pp \in PromotionPieces}
             ELSE {Mv(from, oneStep, piece, NoPiece, FALSE, FALSE, "none", NoPos)}
      double ==
        IF oneFree /\ from.row = startRow /\ isValidPosition(twoSteps)
           /\ getPiece(b, twoSteps) = NoPiece
        THEN {Mv(from, twoSteps, piece, NoPiece, FALSE, FALSE, "none", oneStep)}
        ELSE {}
      captureAt(colOffset) ==
        LET capturePos == Pos(from.row + direction, from.col + colOffset)
            target == getPiece(b, capturePos)
            normal ==
              IF target # NoPiece /\ target.color # piece.color
              THEN IF capturePos.row = promotionRow
                   THEN {Mv(from, capturePos, piece, target, FALSE, FALSE, pp, NoPos) :
                           pp \in PromotionPieces}
                   ELSE {Mv(from, capturePos, piece, target, FALSE, FALSE, "none", NoPos)}
              ELSE {}
            capturedPawnPos == Pos(capturePos.row - direction, capturePos.col)
            capturedPawn == getPiece(b, capturedPawnPos)
            enPassant ==
              IF state.enPassantTarget # NoPos /\ capturePos = state.enPassantTarget
                 /\ capturedPawn # NoPiece /\ capturedPawn.type = "pawn"
                 /\ capturedPawn.color # piece.color
              THEN {Mv(from, capturePos, piece, capturedPawn, TRUE, FALSE, "none", NoPos)}
              ELSE {}
        IN IF isValidPosition(capturePos) THEN normal \cup enPassant ELSE {}
  IN forward \cup double \cup captureAt(-1) \cup captureAt(1)

OnBoard(r, c) == r >= 0 /\ r < 8 /\ c >= 0 /\ c < 8

\* the inner loop `for (let i = 1; i < 8; i++)` of generateRookMoves and
\* generateBishopMoves from step i on, in direction <<rowDir, colDir>>
RECURSIVE RayMoves(_, _, _, _, _, _)
RayMoves(b, from, piece, rowDir, colDir, i) ==
  LET r == from.row + i * rowDir
      c == from.col + i * colDir
  IN IF i >= 8 THEN {}
     ELSE IF ~OnBoard(r, c) THEN {}
     ELSE IF b[r][c] = NoPiece
          THEN {Mv(from, Pos(r, c), piece, NoPiece, FALSE, FALSE, "none", NoPos)}
               \cup RayMoves(b, from, piece, rowDir, colDir, i + 1)
     ELSE IF b[r][c].color # piece.color
          THEN {Mv(from, Pos(r, c), piece, b[r][c], FALSE, FALSE, "none", NoPos)}
     ELSE {}

SlideMoves(b, from, piece, directions) ==
  UNION { RayMoves(b, from, piece, d[1], d[2], 1) : d \in directions }

RookDirections == {<<-1, 0>>, <<1, 0>>, <<0, -1>>, <<0, 1>>}
BishopDirections == {<<-1, -1>>, <<-1, 1>>, <<1, -1>>, <<1, 1>>}

generateRookMoves(state, from, piece) ==
  SlideMoves(state.board, from, piece, RookDirections)

generateBishopMoves(state, from, piece) ==
  SlideMoves(state.board, from, piece, BishopDirections)

generateQueenMoves(state, from, piece) ==
  generateRookMoves(state, from, piece) \cup generateBishopMoves(state, from, piece)

\* fixed offset tables: destination on the board and empty or enemy-occupied
StepMoves(b, from, piece, offsets) ==
  { Mv(from, Pos(from.row + o[1], from.col + o[2]), piece,
       b[from.row + o[1]][from.col + o[2]], FALSE, FALSE, "none", NoPos) :
      o \in { q \in offsets :
                /\ OnBoard(from.row + q[1], from.col + q[2])
                /\ b[from.row + q[1]][from.col + q[2]].color # piece.color } }

\* KnightOffsets with one sign wrong in its first entry
KnightOffsetsSignSlip == {<<2, -1>>, <<-2, 1>>, <<-1, -2>>, <<-1, 2>>,
                          <<1, -2>>, <<1, 2>>, <<2, 1>>}

KnightOffsets == {<<-2, -1>>, <<-2, 1>>, <<-1, -2>>, <<-1, 2>>,
                  <<1, -2>>, <<1, 2>>, <<2, -1>>, <<2, 1>>}
KingOffsets == {<<-1, -1>>, <<-1, 0>>, <<-1, 1>>, <<0, -1>>,
                <<0, 1>>, <<1, -1>>, <<1, 0>>, <<1, 1>>}

generateKnightMoves(state, from, piece) ==
  StepMoves(state.board, from, piece, KnightOffsets)


(***************************************************************************)
(* King moves, castling and attack detection.  generateKingMoves calls     *)
(* isSquareAttacked, which calls generatePieceMoves for every piece of     *)
(* the attacking color, the king included, which calls generateKingMoves   *)
(* again.  Nothing mutates the state in between, so a call of              *)
(* isSquareAttacked(pos, byColor) that is reached again while it is still  *)
(* running recurses without end: the parameter `stack` holds the calls in  *)
(* progress and a re-entered call has the outcome "X" (RangeError).        *)
(* Outcomes are "T", "F" or "X"; move lists are [div, moves].              *)
(***************************************************************************)
Moves(ms) == [div |-> FALSE, moves |-> ms]
Diverges == [div |-> TRUE, moves |-> {}]

\* the squares in the order of the nested row/col loops of the source
SquareAt(i) == Pos(i \div 8, i % 8)

RECURSIVE isSquareAttackedR(_, _, _, _)
RECURSIVE NoneAttacked(_, _, _, _)
RECURSIVE generatePieceMovesR(_, _, _, _)

\* !isSquareAttacked(s1) && !isSquareAttacked(s2) && ... , left to right
NoneAttacked(state, squares, byColor, stack) ==
  IF squares = <<>> THEN "T"
  ELSE Eval(isSquareAttackedR(state, Head(squares), byColor, stack),
            LAMBDA a : IF a = "X" THEN "X"
                       ELSE IF a = "T" THEN "F"
                       ELSE NoneAttacked(state, Tail(squares), byColor, stack))

\* one `if (castlingRights.<right>) { ... }` block of generateKingMoves
CastlingMoves(state, from, piece, right, row, clearCols, checkCols, toCol, stack) ==
  IF ~state.castlingRights[right] THEN Moves({})
  ELSE IF \E c \in clearCols : getPiece(state.board, Pos(row, c)) # NoPiece
       THEN Moves({})
  ELSE Eval(NoneAttacked(state, [i \in 1..3 |-> Pos(row, checkCols[i])],
                         Opponent(piece.color), stack),
            LAMBDA free :
              IF free = "X" THEN Diverges
              ELSE IF free = "T"
                   THEN Moves({Mv(from, Pos(row, toCol), piece, NoPiece, FALSE, TRUE,
                                  "none", NoPos)})
                   ELSE Moves({}))

generateKingMovesR(state, from, piece, stack) ==
  LET regular == StepMoves(state.board, from, piece, KingOffsets)
      white == piece.color = "white"
      row == IF white THEN 7 ELSE 0
      kingSide == CastlingMoves(state, from, piece,
                    IF white THEN "whiteKingSide" ELSE "blackKingSide",
                    row, {5, 6}, <<4, 5, 6>>, 6, stack)
      queenSide == CastlingMoves(state, from, piece,
                    IF white THEN "whiteQueenSide" ELSE "blackQueenSide",
                    row, {1, 2, 3}, <<2, 3, 4>>, 2, stack)
  IN Eval(kingSide, LAMBDA ks :
       IF ks.div THEN Diverges
       ELSE Eval(queenSide, LAMBDA qs :
              IF qs.div THEN Diverges
              ELSE Moves(regular \cup ks.moves \cup qs.moves)))

generatePieceMovesR(state, from, piece, stack) ==
  CASE piece.type = "pawn" -> Moves(generatePawnMoves(state, from, piece))
    [] piece.type = "rook" -> Moves(generateRookMoves(state, from, piece))
    [] piece.type = "knight" -> Moves(generateKnightMoves(state, from, piece))
    [] piece.type = "bishop" -> Moves(generateBishopMoves(state, from, piece))
    [] piece.type = "queen" -> Moves(generateQueenMoves(state, from, piece))
    [] piece.type = "king" -> generateKingMovesR(state, from, piece, stack)
    [] OTHER -> Moves({})

\* the squares holding a piece of `color`, as indices row * 8 + col
SquaresOf(state, color) ==
  { i \in 0..63 : state.board[i \div 8][i % 8].color = color }

\* one pass of the body of that loop: "T" when a move of the piece on
\* square i ends on pos, "X" when generating its moves raises
PieceAttack(state, pos, stack, i) ==
  Eval(generatePieceMovesR(state, SquareAt(i), state.board[i \div 8][i % 8], stack),
       LAMBDA attacks :
         IF attacks.div THEN "X"
         ELSE IF \E move \in attacks.moves : move.to = pos THEN "T"
         ELSE "F")

\* the loop of isSquareAttacked (and of isInCheck) over the squares `todo`,
\* lowest first: the loop ends at the first piece of byColor one of whose
\* moves ends on pos (true) or whose move generation raises
ScanAttack(state, pos, byColor, stack, todo) ==
  Eval({ i \in todo : PieceAttack(state, pos, stack, i) # "F" }, LAMBDA ends :
    IF ends = {} THEN "F"
    ELSE PieceAttack(state, pos, stack, CHOOSE i \in ends : \A j \in ends : i <= j))

isSquareAttackedR(state, pos, byColor, stack) ==
  IF <<pos, byColor>> \in stack THEN "X"
  ELSE ScanAttack(state, pos, byColor, stack \cup {<<pos, byColor>>},
                  SquaresOf(state, byColor))

isSquareAttacked(state, pos, byColor) == isSquareAttackedR(state, pos, byColor, {})

generatePieceMoves(state, from, piece) == generatePieceMovesR(state, from, piece, {})

generateKingMoves(state, from, piece) == generateKingMovesR(state, from, piece, {})

getKingPosition(state, color) ==
  LET kings == { i \in 0..63 : state.board[i \div 8][i % 8] = Pc("king", color) }
  IN IF kings = {} THEN NoPos
     ELSE SquareAt(CHOOSE i \in kings : \A j \in kings : i <= j)

isInCheck(state, color) ==
  Eval(getKingPosition(state, color), LAMBDA kingPos :
    IF kingPos = NoPos THEN "F"
    ELSE ScanAttack(state, kingPos, Opponent(color), {},
                    SquaresOf(state, Opponent(color))))

(***************************************************************************)
(* isLegalMove: the move is tried on the live state and the state is put   *)
(* back in the finally clause, also when isInCheck raises.                 *)
(***************************************************************************)
\* the live state at the moment isInCheck is called
isLegalMoveTrial(state, move) ==
  LET b1 == setPiece(state.board, move.to, move.piece)
      b2 == setPiece(b1, move.from, NoPiece)
      direction == IF move.piece.color = "white" THEN 1 ELSE -1
      b3 == IF move.isEnPassant /\ move.capturedPiece # NoPiece
            THEN setPiece(b2, Pos(move.to.row + direction, move.to.col), NoPiece)
            ELSE b2
  IN [state EXCEPT !.board = b3]

\* isLegalMove asking about the wrong king: !isInCheck(<the other color>)
isLegalMoveOtherKing(state, move) ==
  LET inCheck(trial) == isInCheck(trial, Opponent(move.piece.color))
      verdict(c) == IF c = "X" THEN "X" ELSE IF c = "F" THEN "T" ELSE "F"
  IN verdict(Eval(isLegalMoveTrial(state, move), inCheck))

\* what isLegalMove returns: "T", "F", or "X" when isInCheck raises
isLegalMove(state, move) ==
  LET inCheck(trial) == isInCheck(trial, move.piece.color)
      verdict(c) == IF c = "X" THEN "X" ELSE IF c = "F" THEN "T" ELSE "F"
  IN verdict(Eval(isLegalMoveTrial(state, move), inCheck))

\* isLegalMove without its finally clause: the trial stays on the board
isLegalMoveNoRestore(state, move) == isLegalMoveTrial(state, move)

\* the live state after isLegalMove has returned or raised: the finally
\* clause puts the snapshot taken on entry back
isLegalMoveRestore(state, move) ==
  LET originalState == copyState(state)
  IN setState(originalState)

\* pseudo-legal moves of every piece of `color`, then the legality filter
PseudoMoves(state, color) ==
  LET own == SquaresOf(state, color)
  IN Eval({ generatePieceMoves(state, SquareAt(i), state.board[i \div 8][i % 8]) :
              i \in own },
          LAMBDA per : IF \E g \in per : g.div THEN Diverges
                       ELSE Moves(UNION { g.moves : g \in per }))

generateMovesFor(state, color) ==
  Eval(PseudoMoves(state, color), LAMBDA pseudo :
    IF pseudo.div THEN Diverges
    ELSE Eval({ <<m, isLegalMove(state, m)>> : m \in pseudo.moves },
              LAMBDA tested :
                IF \E t \in tested : t[2] = "X" THEN Diverges
                ELSE Moves({ t[1] : t \in { u \in tested : u[2] = "T" } })))

\* generateMoves() with no argument: the side to move
generateMoves(state) == generateMovesFor(state, state.turn)


(***************************************************************************)
(* makeMove                                                                *)
(***************************************************************************)
\* updateCastlingRights without its rook-captured cases
updateCastlingRightsNoCapture(rights, move) ==
  LET kingMoved(c) == move.piece.type = "king" /\ move.piece.color = c
      rookMoved(c, row, col) ==
        move.piece.type = "rook" /\ move.piece.color = c
        /\ move.from.row = row /\ move.from.col = col
      cleared(c, row, col) == kingMoved(c) \/ rookMoved(c, row, col)
  IN [whiteKingSide |-> rights.whiteKingSide /\ ~cleared("white", 7, 7),
      whiteQueenSide |-> rights.whiteQueenSide /\ ~cleared("white", 7, 0),
      blackKingSide |-> rights.blackKingSide /\ ~cleared("black", 0, 7),
      blackQueenSide |-> rights.blackQueenSide /\ ~cleared("black", 0, 0)]

updateCastlingRights(rights, move) ==
  LET kingMoved(c) == move.piece.type = "king" /\ move.piece.color = c
      rookMoved(c, row, col) ==
        move.piece.type = "rook" /\ move.piece.color = c
        /\ move.from.row = row /\ move.from.col = col
      rookCaptured(c, row, col) ==
        move.capturedPiece # NoPiece /\ move.capturedPiece.type = "rook"
        /\ move.capturedPiece.color = c /\ move.to.row = row /\ move.to.col = col
      cleared(c, row, col) ==
        kingMoved(c) \/ rookMoved(c, row, col) \/ rookCaptured(c, row, col)
  IN [whiteKingSide |-> rights.whiteKingSide /\ ~cleared("white", 7, 7),
      whiteQueenSide |-> rights.whiteQueenSide /\ ~cleared("white", 7, 0),
      blackKingSide |-> rights.blackKingSide /\ ~cleared("black", 0, 7),
      blackQueenSide |-> rights.blackQueenSide /\ ~cleared("black", 0, 0)]

\* the rook's part of a castling move (lines 505-525)
CastleRook(board, move) ==
  LET rookCols == IF move.to.col = 6 THEN <<7, 5>>
                  ELSE IF move.to.col = 2 THEN <<0, 3>> ELSE <<-1, -1>>
      rookFrom == Pos(move.from.row, rookCols[1])
      rookTo == Pos(move.from.row, rookCols[2])
      rook == getPiece(board, rookFrom)
  IN IF move.isCastling /\ rookCols[1] >= 0 /\ rook # NoPiece
     THEN setPiece(setPiece(board, rookTo, rook), rookFrom, NoPiece)
     ELSE board

\* MovePiece without its second statement: the source square keeps the piece
MovePieceKeepsSource(board, move) == setPiece(board, move.to, move.piece)

\* setPiece(move.to, move.piece); setPiece(move.from, null)
MovePiece(board, move) ==
  setPiece(setPiece(board, move.to, move.piece), move.from, NoPiece)

\* EnPassantCapture emptying the square ahead of the destination instead of
\* the one behind it
EnPassantCaptureAhead(board, move) ==
  LET direction == IF move.piece.color = "white" THEN -1 ELSE 1
  IN IF move.isEnPassant /\ move.capturedPiece # NoPiece
     THEN setPiece(board, Pos(move.to.row + direction, move.to.col), NoPiece)
     ELSE board

\* the en passant part of makeMove: the captured pawn leaves the board
EnPassantCapture(board, move) ==
  LET direction == IF move.piece.color = "white" THEN 1 ELSE -1
  IN IF move.isEnPassant /\ move.capturedPiece # NoPiece
     THEN setPiece(board, Pos(move.to.row + direction, move.to.col), NoPiece)
     ELSE board

\* Promote ignoring the piece that was chosen
PromoteAlwaysQueen(board, move) ==
  IF move.promotionPiece # "none"
  THEN setPiece(board, move.to, Pc("queen", move.piece.color))
  ELSE board

\* the promotion part of makeMove
Promote(board, move) ==
  IF move.promotionPiece # "none"
  THEN setPiece(board, move.to, Pc(move.promotionPiece, move.piece.color))
  ELSE board

\* NextEnPassantTarget writing the field only when the move carries a target
NextEnPassantTargetKept(state, move) ==
  IF move.enPassantTarget # NoPos THEN move.enPassantTarget
  ELSE state.enPassantTarget

\* enPassantTarget = move.enPassantTarget || null
NextEnPassantTarget(state, move) == move.enPassantTarget

\* turn = turn === "white" ? "black" : "white"
NextTurn(state) == IF state.turn = "white" THEN "black" ELSE "white"

\* NextFullMoveNumber counting every ply
NextFullMoveNumberEveryPly(state, newTurn) == state.fullMoveNumber + 1

\* if (turn === "white") fullMoveNumber++, on the turn already flipped
NextFullMoveNumber(state, newTurn) ==
  IF newTurn = "white" THEN state.fullMoveNumber + 1 ELSE state.fullMoveNumber

\* the state changes of makeMove after the legality test has passed
applyMove(state, move) ==
  [board |-> Promote(CastleRook(EnPassantCapture(MovePiece(state.board, move), move),
                                move), move),
   turn |-> NextTurn(state),
   lastMove |-> move,
   castlingRights |-> updateCastlingRights(state.castlingRights, move),
   enPassantTarget |-> NextEnPassantTarget(state, move),
   halfMoveClock |-> state.halfMoveClock,
   fullMoveNumber |-> NextFullMoveNumber(state, NextTurn(state))]

\* makeMove: [result, state]; result is "T" (true), "F" (false) or "X"
\* (isLegalMove raised), state is the live state afterwards
makeMove(state, move) ==
  Eval(isLegalMove(state, move), LAMBDA legal :
    Eval(isLegalMoveRestore(state, move), LAMBDA restored :
      IF legal = "T" THEN [result |-> "T", state |-> applyMove(restored, move)]
      ELSE [result |-> legal, state |-> restored]))

(***************************************************************************)
(* Terminal status and notation                                            *)
(***************************************************************************)
\* isInCheck() && generateMoves().length === 0, left to right
isCheckmate(state) ==
  Eval(isInCheck(state, state.turn), LAMBDA c :
    IF c # "T" THEN c
    ELSE Eval(generateMoves(state), LAMBDA generated :
           IF generated.div THEN "X"
           ELSE IF generated.moves = {} THEN "T" ELSE "F"))

\* !isInCheck() && generateMoves().length === 0, left to right
isStalemate(state) ==
  Eval(isInCheck(state, state.turn), LAMBDA c :
    IF c = "X" THEN "X"
    ELSE IF c = "T" THEN "F"
    ELSE Eval(generateMoves(state), LAMBDA generated :
           IF generated.div THEN "X"
           ELSE IF generated.moves = {} THEN "T" ELSE "F"))

isGameOver(state) ==
  Eval(isCheckmate(state), LAMBDA m : IF m # "F" THEN m ELSE isStalemate(state))

\* file letter and rank digit of a square
positionToAlgebraic(pos) ==
  <<<<"a", "b", "c", "d", "e", "f", "g", "h">>[pos.col + 1], 8 - pos.row>>

PieceLetter(type) ==
  CASE type = "pawn" -> ""
    [] type = "king" -> "K"
    [] type = "queen" -> "Q"
    [] type = "rook" -> "R"
    [] type = "bishop" -> "B"
    [] type = "knight" -> "K"
    [] OTHER -> ""

\* moveToNotation without its finally clause: the move stays made
moveToNotationNoRestore(state, move) == makeMove(state, move).state

\* the live state after the try block of moveToNotation has returned or
\* raised: the finally clause puts the snapshot taken before makeMove back
moveToNotationRestore(state, move) ==
  LET originalState == copyState(state)
  IN setState(originalState)

\* moveToNotation: [result, text, state].  text lists the parts of the
\* string in order; result is "X" when makeMove, isCheckmate or isInCheck
\* raised; state is the live state afterwards (the finally clause).
moveToNotation(state, move) ==
  IF move.isCastling
  THEN [result |-> "T", state |-> state,
        text |-> <<IF move.to.col = 6 THEN "O-O" ELSE "O-O-O">>]
  ELSE LET \* isInCheck() on the state after makeMove, unless isCheckmate()
           \* already answered true or raised
           checked(made, mate) ==
             IF mate # "F" THEN mate ELSE isInCheck(made.state, made.state.turn)
           \* <<isCheckmate(), isInCheck()>> on the state after makeMove
           status(made) ==
             IF made.result = "X" THEN <<"X", "X">>
             ELSE Eval(isCheckmate(made.state),
                       LAMBDA mate : <<mate, checked(made, mate)>>)
       IN Eval(Eval(makeMove(state, move), status), LAMBDA st :
          [result |-> IF st[1] = "X" \/ st[2] = "X" THEN "X" ELSE "T",
           state |-> moveToNotationRestore(state, move),
           text |-> <<PieceLetter(move.piece.type), positionToAlgebraic(move.from),
                      IF move.capturedPiece # NoPiece \/ move.isEnPassant
                      THEN "x" ELSE "",
                      positionToAlgebraic(move.to),
                      IF move.promotionPiece # "none"
                      THEN <<"=", PieceLetter(move.promotionPiece)>> ELSE <<>>,
                      IF st[1] = "T" THEN "#"
                      ELSE IF st[2] = "T" THEN "+" ELSE "">>])

(***************************************************************************)
(* The bot's use of the engine (src/unnamed/part_001): what a search does  *)
(* to the live GameState.                                                  *)
(***************************************************************************)
\* one iteration of the root loop of searchAtDepth: snapshot, makeMove, the
\* search below the move (whose own finally clauses put their snapshots
\* back), and the finally clause that puts the snapshot of this iteration
\* back whatever happened in between
\* SearchRootStep putting back a snapshot that shares the turn with the
\* live state
SearchRootStepKeepsTurn(state, move) ==
  LET originalState == copyState(state)
      made == makeMove(state, move)
  IN [setState(originalState) EXCEPT !.turn = made.state.turn]

SearchRootStep(state, move) ==
  LET originalState == copyState(state)
      made == makeMove(state, move)
  IN setState(originalState)

\* where a move stands in the array: the pieces come in the order of the
\* row/col loops of generateMoves, the moves of one piece by target square
\* and promotion piece
MoveRank(move) ==
  (move.from.row * 8 + move.from.col) * 640
  + (move.to.row * 8 + move.to.col) * 10
  + (CASE move.promotionPiece = "queen" -> 1
       [] move.promotionPiece = "rook" -> 2
       [] move.promotionPiece = "bishop" -> 3
       [] move.promotionPiece = "knight" -> 4
       [] OTHER -> 0)

\* the moves as the array the loop walks (the live state at the end of the
\* loop is the same for every order)
MoveArray(moves) ==
  Eval({ <<MoveRank(m), m>> : m \in moves }, LAMBDA ranked :
    [k \in 1..Cardinality(ranked) |->
       (CHOOSE p \in ranked :
          Cardinality({ q \in ranked : q[1] < p[1] }) = k - 1)[2]])

\* the iterations i..j of `for (const move of orderedMoves)`, in order:
\* the first half of them, then the second half on the state they leave
RECURSIVE SearchRootRange(_, _, _, _)
SearchRootRange(state, moves, i, j) ==
  IF i > j THEN state
  ELSE IF i = j THEN SearchRootStep(state, moves[i])
  ELSE Eval(SearchRootRange(state, moves, i, (i + j) \div 2), LAMBDA after :
              SearchRootRange(after, moves, (i + j) \div 2 + 1, j))

\* `for (const move of orderedMoves)` from the i-th move on
SearchRootLoop(state, moves, i) == SearchRootRange(state, moves, i, Len(moves))

\* searchAtDepth: the live state when it returns
searchAtDepth(state, generated) ==
  Eval(MoveArray(generated.moves), LAMBDA moves : SearchRootLoop(state, moves, 1))

\* getBestMoveWithAnalysis: [result, state]; generateMoves() at line 149
\* is outside the try block, so its exception rejects the promise
getBestMoveWithAnalysis(state) ==
  Eval(generateMoves(state), LAMBDA generated :
    IF generated.div THEN [result |-> "X", state |-> state]
    ELSE [result |-> "T", state |-> searchAtDepth(state, generated)])

(***************************************************************************)
(* The live GameState after the queries.  isInCheck and the generators     *)
(* only read it; the legality filter writes a trial into it and puts the   *)
(* snapshot back, move after move, until the array ends or a test raises.  *)
(***************************************************************************)
\* the live state after the filter callback ran on the moves i..j, in
\* order: on the first half of them, then on the second half
RECURSIVE FilterRange(_, _, _, _)
FilterRange(state, moves, i, j) ==
  IF i > j THEN state
  ELSE IF i = j THEN isLegalMoveRestore(state, moves[i])
  ELSE Eval(FilterRange(state, moves, i, (i + j) \div 2), LAMBDA before :
              FilterRange(before, moves, (i + j) \div 2 + 1, j))

\* the live state after the filter callback ran on the first n moves
FilterLegal(state, moves, n) == FilterRange(state, moves, 1, n)

\* how many moves `moves.filter((move) => this.isLegalMove(move))` tests:
\* all of them, or those up to the first test that raises
TestsRun(state, moves) ==
  Eval({ i \in 1..Len(moves) :
           \E before \in {FilterLegal(state, moves, i - 1)} :
              isLegalMove(before, moves[i]) = "X" },
       LAMBDA raising :
         IF raising = {} THEN Len(moves)
         ELSE CHOOSE i \in raising : \A j \in raising : i <= j)

\* the live state after an array of generated moves went through the filter
FilterAfter(state, generated) ==
  IF generated.div THEN state
  ELSE Eval(MoveArray(generated.moves), LAMBDA moves :
         Eval(TestsRun(state, moves), LAMBDA n : FilterLegal(state, moves, n)))

generateMovesAfter(state, color) ==
  Eval(PseudoMoves(state, color), LAMBDA pseudo : FilterAfter(state, pseudo))

\* generateMovesForPiece(position): [result, state]
generateMovesForPiece(state, position) ==
  Eval(getPiece(state.board, position), LAMBDA piece :
    IF piece = NoPiece \/ piece.color # state.turn
    THEN [result |-> "T", state |-> state]
    ELSE Eval(generatePieceMoves(state, position, piece), LAMBDA pseudo :
           [result |-> IF pseudo.div
                          \/ \E m \in pseudo.moves : isLegalMove(state, m) = "X"
                       THEN "X" ELSE "T",
            state |-> FilterAfter(state, pseudo)]))

isCheckmateAfter(state) ==
  IF isInCheck(state, state.turn) = "T"
  THEN generateMovesAfter(state, state.turn) ELSE state

isStalemateAfter(state) ==
  IF isInCheck(state, state.turn) = "F"
  THEN generateMovesAfter(state, state.turn) ELSE state

isGameOverAfter(state) ==
  Eval(isCheckmateAfter(state), LAMBDA after :
    IF isCheckmate(state) = "F" THEN isStalemateAfter(after) ELSE after)

(***************************************************************************)
(* Positions                                                               *)
(***************************************************************************)
\* a board from a set of <<row, col, type, color>> placements
BoardOf(placed) ==
  [r \in Rows |-> [c \in Cols |->
     IF \E x \in placed : x[1] = r /\ x[2] = c
     THEN LET x == CHOOSE y \in placed : y[1] = r /\ y[2] = c IN Pc(x[3], x[4])
     ELSE NoPiece]]

BackRank == <<"rook", "knight", "bishop", "queen", "king", "bishop", "knight", "rook">>

Rights(wk, wq, bk, bq) ==
  [whiteKingSide |-> wk, whiteQueenSide |-> wq, blackKingSide |-> bk, blackQueenSide |-> bq]

getInitialGameState ==
  [board |-> [r \in Rows |-> [c \in Cols |->
                CASE r = 0 -> Pc(BackRank[c + 1], "black")
                  [] r = 1 -> Pc("pawn", "black")
                  [] r = 6 -> Pc("pawn", "white")
                  [] r = 7 -> Pc(BackRank[c + 1], "white")
                  [] OTHER -> NoPiece]],
   turn |-> "white",
   lastMove |-> NoMove,
   castlingRights |-> Rights(TRUE, TRUE, TRUE, TRUE),
   enPassantTarget |-> NoPos,
   halfMoveClock |-> 0,
   fullMoveNumber |-> 1]

\* a position of a game in progress: the state the engine is in after the
\* given last move; halfMoveClock is never written by the engine
Midgame(placed, turn, lastMove, rights, moveNo) ==
  [board |-> BoardOf(placed), turn |-> turn, lastMove |-> lastMove,
   castlingRights |-> rights, enPassantTarget |-> lastMove.enPassantTarget,
   halfMoveClock |-> 0, fullMoveNumber |-> moveNo]

Quiet(r1, c1, r2, c2, t, col) ==
  Mv(Pos(r1, c1), Pos(r2, c2), Pc(t, col), NoPiece, FALSE, FALSE, "none", NoPos)

\* White keeps the king-side right, Black's king has moved.  Black to move
\* after a2-a3; ...e3-e2 puts a pawn diagonally behind d1 and f1.
KingSidePosition ==
  Midgame({<<7, 4, "king", "white">>, <<7, 7, "rook", "white">>,
           <<5, 0, "pawn", "white">>,
           <<1, 6, "king", "black">>, <<5, 4, "pawn", "black">>},
          "black", Quiet(6, 0, 5, 0, "pawn", "white"),
          Rights(TRUE, FALSE, FALSE, FALSE), 40)

\* White keeps the queen-side right; Black's bishop on e5 looks at a1.
\* Black to move after h2-h3.
QueenSidePosition ==
  Midgame({<<7, 4, "king", "white">>, <<7, 0, "rook", "white">>,
           <<5, 7, "pawn", "white">>,
           <<1, 6, "king", "black">>, <<3, 4, "bishop", "black">>},
          "black", Quiet(6, 7, 5, 7, "pawn", "white"),
          Rights(FALSE, TRUE, FALSE, FALSE), 41)

\* Pawn play: ...d7-d5 allows e5xd6 en passant, a7 promotes on a8 or by
\* capturing on b8.  Black to move after a6-a7.
PawnPosition ==
  Midgame({<<6, 6, "king", "white">>, <<3, 4, "pawn", "white">>,
           <<1, 0, "pawn", "white">>,
           <<1, 6, "king", "black">>, <<1, 3, "pawn", "black">>,
           <<0, 1, "knight", "black">>},
          "black", Quiet(2, 0, 1, 0, "pawn", "white"),
          Rights(FALSE, FALSE, FALSE, FALSE), 45)

\* Both sides keep the king-side right; g1 and f8 are still occupied, so
\* neither king-side is clear yet.  White to move after ...a7-a6.
BothRightsPosition ==
  Midgame({<<7, 4, "king", "white">>, <<7, 7, "rook", "white">>,
           <<7, 6, "knight", "white">>,
           <<0, 4, "king", "black">>, <<0, 7, "rook", "black">>,
           <<0, 5, "bishop", "black">>, <<2, 0, "pawn", "black">>},
          "white", Quiet(1, 0, 2, 0, "pawn", "black"),
          Rights(TRUE, FALSE, TRUE, FALSE), 38)

StartPositions ==
  {getInitialGameState, KingSidePosition, QueenSidePosition, PawnPosition,
   BothRightsPosition}

\* the state after makeMove of the generated move from one square to another
Play(state, fromTo) ==
  Eval(generateMoves(state), LAMBDA generated :
    makeMove(state, CHOOSE m \in generated.moves :
                      m.from = fromTo[1] /\ m.to = fromTo[2]).state)

\* 1.e4 e5 2.Bc4 Nc6 3.Qh5 Nf6 4.Qxf7 from the initial position, move by move
AfterE4 == Play(getInitialGameState, <<Pos(6, 4), Pos(4, 4)>>)
AfterE5 == Play(AfterE4, <<Pos(1, 4), Pos(3, 4)>>)
AfterBc4 == Play(AfterE5, <<Pos(7, 5), Pos(4, 2)>>)
AfterNc6 == Play(AfterBc4, <<Pos(0, 1), Pos(2, 2)>>)
AfterQh5 == Play(AfterNc6, <<Pos(7, 3), Pos(3, 7)>>)
AfterNf6 == Play(AfterQh5, <<Pos(0, 6), Pos(2, 5)>>)
ScholarsMate == Play(AfterNf6, <<Pos(3, 7), Pos(1, 5)>>)

(***************************************************************************)
(* The bot (src/unnamed/part_001).  Of the search below a root move the    *)
(* model follows what getBestMoveWithAnalysis and searchAtDepth see: the   *)
(* value that comes back, whether an exception came back instead, and the  *)
(* entry alphaBetaWithEnhancements stores for the position after the move. *)
(* Of the six weighted terms of evaluatePositionAdvanced the material term *)
(* is followed; Date.now() and Math.random() are choices of the caller's   *)
(* environment.                                                            *)
(***************************************************************************)
\* requests explored on one bot instance
MaxRequests == 2

\* Number.NEGATIVE_INFINITY, below every value an evaluation returns
NegativeInfinity == -1000000

\* the difficulty arguments explored, as <<>> (no argument) or <<level>>:
\* none, one the bot answers with random moves (<= 2, which is also < 7)
\* and one it answers from the opening book (>= 3, which is also >= 7)
Undefined == <<>>
Levels == {Undefined, <<2>>, <<7>>}

\* the depth up to which the clock is followed passing the time budget
MaxTimedDepth == 2

\* how many root moves an iteration can have searched when the time check
\* of searchAtDepth ends it
CutPoints == {0, 1}

\* the tables of a new ChessBot: empty maps and killerMoves = []
NewTables == [transposition |-> {}, killerMoves |-> 0, history |-> {}]

\* the tables as setDifficulty leaves them: cleared maps, Array(20) of []
ClearedTables == [transposition |-> {}, killerMoves |-> 20, history |-> {}]

\* this.difficulty after setDifficulty(level)
setDifficulty(level) ==
  IF level < 1 THEN 1 ELSE IF level > 10 THEN 10 ELSE level

maxSearchDepth(difficulty) ==
  Eval((difficulty * 12) \div 10, LAMBDA scaled :
    Eval(IF scaled > 3 THEN scaled ELSE 3, LAMBDA wanted :
      IF wanted < 12 THEN wanted ELSE 12))

getPieceValue(type) ==
  CASE type = "pawn" -> 100
    [] type = "knight" -> 320
    [] type = "bishop" -> 330
    [] type = "rook" -> 500
    [] type = "queen" -> 900
    [] type = "king" -> 20000
    [] OTHER -> 0

\* the squares that hold a piece
Occupied(state) ==
  { p \in { SquareAt(i) : i \in 0..63 } : getPiece(state.board, p) # NoPiece }

isEndgame(state) ==
  Eval(Occupied(state), LAMBDA pieces :
    \/ Cardinality(pieces) <= 12
    \/ Cardinality({ p \in pieces :
                       getPiece(state.board, p).type \in {"queen", "rook"} }) <= 3)

\* the value of a piece type in the endgame: *0.95, *1.05, *1.3, *0.9, *1.1
EndgameValue(type) ==
  CASE type = "queen" -> (getPieceValue(type) * 95) \div 100
    [] type = "rook" -> (getPieceValue(type) * 105) \div 100
    [] type = "pawn" -> (getPieceValue(type) * 130) \div 100
    [] type = "knight" -> (getPieceValue(type) * 90) \div 100
    [] type = "bishop" -> (getPieceValue(type) * 110) \div 100
    [] OTHER -> getPieceValue(type)

\* the sum of the values of the pieces of one color
MaterialOf(state, color, endgame) ==
  Eval([type \in {"pawn", "knight", "bishop", "rook", "queen", "king"} |->
          Cardinality({ p \in Occupied(state) :
                          getPiece(state.board, p) = Pc(type, color) })
          * (IF endgame THEN EndgameValue(type) ELSE getPieceValue(type))],
       LAMBDA worth : worth["pawn"] + worth["knight"] + worth["bishop"]
                      + worth["rook"] + worth["queen"] + worth["king"])

\* white's material minus black's
getMaterialScore(state) ==
  Eval(isEndgame(state), LAMBDA endgame :
    MaterialOf(state, "white", endgame) - MaterialOf(state, "black", endgame))

\* evaluatePositionAdvanced: [raised, score]; isCheckmate() and
\* isStalemate() are asked first and may raise
evaluatePositionAdvanced(state) ==
  Eval(isCheckmate(state), LAMBDA mate :
    IF mate = "X" THEN [raised |-> TRUE, score |-> 0]
    ELSE IF mate = "T"
    THEN [raised |-> FALSE, score |-> IF state.turn = "white" THEN -30000 ELSE 30000]
    ELSE Eval(isStalemate(state), LAMBDA stale :
           IF stale = "X" THEN [raised |-> TRUE, score |-> 0]
           ELSE IF stale = "T" THEN [raised |-> FALSE, score |-> 0]
           ELSE [raised |-> FALSE,
                 score |-> IF state.turn = "white" THEN getMaterialScore(state)
                           ELSE -getMaterialScore(state)]))

\* `${piece.color[0]}${piece.type[0]}`, or "." for an empty square
SquareKey(board, row, col) ==
  IF board[row][col] = NoPiece THEN "."
  ELSE (IF board[row][col].color = "white" THEN "w" ELSE "b")
       \o (CASE board[row][col].type = "pawn" -> "p"
              [] board[row][col].type = "rook" -> "r"
              [] board[row][col].type = "knight" -> "k"
              [] board[row][col].type = "bishop" -> "b"
              [] board[row][col].type = "queen" -> "q"
              [] board[row][col].type = "king" -> "k")

\* the inner loop of getPositionKey for one row
RowKey(board, row) ==
  SquareKey(board, row, 0) \o SquareKey(board, row, 1)
  \o SquareKey(board, row, 2) \o SquareKey(board, row, 3)
  \o SquareKey(board, row, 4) \o SquareKey(board, row, 5)
  \o SquareKey(board, row, 6) \o SquareKey(board, row, 7)

\* the key of a position in the transposition table: two letters a piece,
\* the turn, the castling rights and the en-passant target
getPositionKey(state) ==
  RowKey(state.board, 0) \o RowKey(state.board, 1) \o RowKey(state.board, 2)
  \o RowKey(state.board, 3) \o RowKey(state.board, 4) \o RowKey(state.board, 5)
  \o RowKey(state.board, 6) \o RowKey(state.board, 7)
  \o state.turn
  \o (IF state.castlingRights.whiteKingSide THEN "K" ELSE "")
  \o (IF state.castlingRights.whiteQueenSide THEN "Q" ELSE "")
  \o (IF state.castlingRights.blackKingSide THEN "k" ELSE "")
  \o (IF state.castlingRights.blackQueenSide THEN "q" ELSE "")
  \o (IF state.enPassantTarget = NoPos THEN ""
      ELSE ToString(state.enPassantTarget.row) \o ToString(state.enPassantTarget.col))

\* the body of the try block of searchAtDepth for one root move:
\* [made, raised, score, stored].  made: makeMove returned true; raised: an
\* exception reached the catch clause; score: -alphaBetaWithEnhancements;
\* stored: alphaBetaWithEnhancements went past its base cases at depth >= 1
\* and stored an entry for the position after the move
SearchBelow(state, move) ==
  Eval(makeMove(state, move), LAMBDA made :
    IF made.result = "X"
    THEN [made |-> FALSE, raised |-> TRUE, score |-> 0, stored |-> FALSE]
    ELSE IF made.result = "F"
    THEN [made |-> FALSE, raised |-> FALSE, score |-> 0, stored |-> FALSE]
    ELSE Eval(evaluatePositionAdvanced(made.state), LAMBDA value :
           [made |-> TRUE, raised |-> value.raised, score |-> -value.score,
            stored |-> ~value.raised /\ isGameOver(made.state) = "F"]))

\* the moves getOpeningBookMove draws from
goodOpeningMoves(state, moves) ==
  IF state.fullMoveNumber > 10 THEN {}
  ELSE { move \in moves :
           IF move.piece.type = "pawn"
           THEN /\ move.to.col >= 3 /\ move.to.col <= 4
                /\ Abs(move.to.row - move.from.row) = 2
           ELSE IF move.piece.type \in {"knight", "bishop"}
           THEN move.from.row = (IF move.piece.color = "white" THEN 7 ELSE 0)
           ELSE move.isCastling }

\* AnalysisResult; move = NoMove is move: null
Analysis(move, evaluation, depth) ==
  [move |-> move, evaluation |-> evaluation, depth |-> depth]

NoAnalysis == Analysis(NoMove, 0, 0)

\* what the model remembers of an iteration that searched every root move
NoIteration == [depth |-> 0, move |-> NoMove, score |-> 0]

\* A ChessBot.  difficulty and tables are its fields; pc says where a
\* request stands ("idle": none running); depth, bestMove, bestScore and
\* searchDepth are the locals of getBestMoveWithAnalysis; clock is what
\* Date.now() - startTime has passed (0: nothing, 1: 0.8 * maxTime, 2:
\* maxTime).  The other fields record the request for the properties:
\* level (its difficulty argument), entered (difficulty and tables when it
\* came in), iterations (searchAtDepth calls so far), complete (the last
\* iteration that searched every root move), cut (an iteration was ended by
\* the time check), caught (a catch clause ran), drawn (Math.random() was
\* consulted), outcome ("none", "rejected", "returned"), analysis (what was
\* returned), previous (the request before, when it returned with the clock
\* at 0: its level, move and evaluation), root (what a request finds in the
\* engine's position, see RootOf).
NoPrevious == [level |-> Undefined, move |-> NoMove, evaluation |-> 0, held |-> FALSE]

NoRoot ==
  [of |-> NoMove, div |-> FALSE, moves |-> <<>>, below |-> <<>>, keys |-> <<>>]

NewBot ==
  [difficulty |-> 7, tables |-> NewTables, pc |-> "idle",
   depth |-> 0, bestMove |-> NoMove, bestScore |-> NegativeInfinity,
   searchDepth |-> 0, clock |-> 0,
   level |-> Undefined, entered |-> [difficulty |-> 7, tables |-> NewTables],
   iterations |-> 0, complete |-> NoIteration, cut |-> FALSE, caught |-> FALSE,
   drawn |-> FALSE, outcome |-> "none", analysis |-> NoAnalysis,
   previous |-> NoPrevious, root |-> NoRoot]

(***************************************************************************)
(* The engine as a state machine: gs is the live GameState, last the most  *)
(* recent call of a public operation with its outcome, pre the GameState   *)
(* that call started from (the fresh state for the constructor and for     *)
(* reset), left the number of moves the exploration may still make; bot is *)
(* the ChessBot, game the state of the ChessGame component, stack the      *)
(* calls of the bot's search that have not returned yet.                   *)
(***************************************************************************)
VARIABLES gs, pre, last, left, bot, game, stack

vars == <<gs, pre, last, left, bot, game, stack>>

\* no ChessGame component is mounted
NoGame == [mounted |-> FALSE]

Call(op, move, result) == [op |-> op, move |-> move, result |-> result]

\* the opening position has 20 moves a ply and 32 pieces to scan: it is
\* explored one ply less deep than the positions with few pieces
Budget(state) == IF state = getInitialGameState THEN MaxPly - 1 ELSE MaxPly

Init ==
  /\ gs \in StartPositions
  /\ pre = gs
  /\ last = Call("new", NoMove, "T")
  /\ left = Budget(gs)
  /\ bot = NewBot
  /\ game = NoGame
  /\ stack = <<>>

\* makeMove of a move taken from generateMoves()
MakeMove ==
  /\ left > 0
  /\ \E generated \in {generateMoves(gs)} :
       /\ ~generated.div
       /\ \E move \in generated.moves :
            \E r \in {makeMove(gs, move)} :
               /\ gs' = r.state
               /\ last' = Call("makeMove", move, r.result)
  /\ pre' = gs
  /\ left' = left - 1
  /\ UNCHANGED <<bot, game, stack>>

\* generateMoves() raises
GenerateMovesThrows ==
  /\ last.op # "generateMoves"
  /\ generateMoves(gs).div
  /\ last' = Call("generateMoves", NoMove, "X")
  /\ pre' = gs
  /\ UNCHANGED <<gs, left, bot, game, stack>>

\* reset()
Reset ==
  /\ last.op # "new"
  /\ gs' = getInitialGameState
  /\ pre' = getInitialGameState
  /\ last' = Call("reset", NoMove, "T")
  /\ left' = Budget(getInitialGameState)
  /\ UNCHANGED <<bot, game, stack>>

Next == MakeMove \/ GenerateMovesThrows \/ Reset

Spec == Init /\ [][Next]_vars

(***************************************************************************)
(* The engine under a caller that may pass any Move object: makeMove,      *)
(* isLegalMove, moveToNotation, a bot search and reset, in any order.      *)
(***************************************************************************)
ProbeSquares == {Pos(4, 3), Pos(3, 5)}

\* a move object as makePlayerMove builds it from two squares
PlayerMove(state, from, to, piece) ==
  Mv(from, to, piece, getPiece(state.board, to), FALSE, FALSE, "none", NoPos)

\* the moves passed in: every pseudo-legal move of either color (legal
\* moves, moves that leave the own king in check, moves of the side not to
\* move), a queen named on an empty square, and the king of the side to
\* move sent to a far square
Inputs(state) ==
  LET white == PseudoMoves(state, "white")
      black == PseudoMoves(state, "black")
      king == getKingPosition(state, state.turn)
  IN (IF white.div THEN {} ELSE white.moves)
     \cup (IF black.div THEN {} ELSE black.moves)
     \cup { PlayerMove(state, from, to, Pc("queen", state.turn)) :
              from \in { p \in ProbeSquares : getPiece(state.board, p) = NoPiece },
              to \in ProbeSquares }
     \cup { PlayerMove(state, king, to, Pc("king", state.turn)) :
              to \in { p \in ProbeSquares : king # NoPos } }

QueryOps ==
  {"isLegalMove", "moveToNotation", "getBestMoveWithAnalysis", "generateMoves",
   "generateMovesForPiece", "isInCheck", "isCheckmate", "isStalemate",
   "isGameOver"}

\* a truth value or RangeError, as the result of a call
Answer(v) == IF v = "X" THEN "X" ELSE "T"

\* a query that left the state as it found it is not explored further: the
\* calls that can follow it are those that follow the state it started from
Explore == left > 0 /\ ~(last.op \in QueryOps /\ gs = pre)

InitCalls ==
  /\ gs \in StartPositions
  /\ pre = gs
  /\ last = Call("new", NoMove, "T")
  /\ left = MaxCalls
  /\ bot = NewBot
  /\ game = NoGame
  /\ stack = <<>>

\* makeMove(move) for any move
SubmitMove ==
  /\ Explore
  /\ \E move \in Inputs(gs) :
       \E r \in {makeMove(gs, move)} :
          /\ gs' = r.state
          /\ last' = Call("makeMove", move, r.result)
  /\ pre' = gs
  /\ left' = left - 1
  /\ UNCHANGED <<bot, game, stack>>

\* isLegalMove(move) for any move
IsLegalMoveCall ==
  /\ Explore
  /\ \E move \in Inputs(gs) :
       /\ gs' = isLegalMoveRestore(gs, move)
       /\ last' = Call("isLegalMove", move, isLegalMove(gs, move))
  /\ pre' = gs
  /\ left' = left - 1
  /\ UNCHANGED <<bot, game, stack>>

\* moveToNotation(move) for any move
MoveToNotationCall ==
  /\ Explore
  /\ \E move \in Inputs(gs) :
       \E r \in {moveToNotation(gs, move)} :
          /\ gs' = r.state
          /\ last' = Call("moveToNotation", move, r.result)
  /\ pre' = gs
  /\ left' = left - 1
  /\ UNCHANGED <<bot, game, stack>>

\* generateMoves() and generateMoves(color)
GenerateMovesCall ==
  /\ Explore
  /\ \E color \in Colors :
       \E generated \in {generateMovesFor(gs, color)} :
          /\ gs' = generateMovesAfter(gs, color)
          /\ last' = Call("generateMoves", NoMove,
                          IF generated.div THEN "X" ELSE "T")
  /\ pre' = gs
  /\ left' = left - 1
  /\ UNCHANGED <<bot, game, stack>>

\* generateMovesForPiece(position) for every square
GenerateMovesForPieceCall ==
  /\ Explore
  /\ \E i \in 0..63 :
       \E r \in {generateMovesForPiece(gs, SquareAt(i))} :
          /\ gs' = r.state
          /\ last' = Call("generateMovesForPiece", NoMove, r.result)
  /\ pre' = gs
  /\ left' = left - 1
  /\ UNCHANGED <<bot, game, stack>>

\* isInCheck(), isInCheck(color), isCheckmate(), isStalemate(), isGameOver()
StatusCall ==
  /\ Explore
  /\ \/ \E color \in Colors :
          /\ gs' = gs
          /\ last' = Call("isInCheck", NoMove, Answer(isInCheck(gs, color)))
     \/ /\ gs' = isCheckmateAfter(gs)
        /\ last' = Call("isCheckmate", NoMove, Answer(isCheckmate(gs)))
     \/ /\ gs' = isStalemateAfter(gs)
        /\ last' = Call("isStalemate", NoMove, Answer(isStalemate(gs)))
     \/ /\ gs' = isGameOverAfter(gs)
        /\ last' = Call("isGameOver", NoMove, Answer(isGameOver(gs)))
  /\ pre' = gs
  /\ left' = left - 1
  /\ UNCHANGED <<bot, game, stack>>

\* bot.getBestMoveWithAnalysis(engine)
BotSearchCall ==
  /\ Explore
  /\ \E r \in {getBestMoveWithAnalysis(gs)} :
       /\ gs' = r.state
       /\ last' = Call("getBestMoveWithAnalysis", NoMove, r.result)
  /\ pre' = gs
  /\ left' = left - 1
  /\ UNCHANGED <<bot, game, stack>>

\* reset()
ResetCall ==
  /\ Explore
  /\ gs' = getInitialGameState
  /\ pre' = getInitialGameState
  /\ last' = Call("reset", NoMove, "T")
  /\ left' = left - 1
  /\ UNCHANGED <<bot, game, stack>>

NextCalls ==
  \/ SubmitMove \/ IsLegalMoveCall \/ MoveToNotationCall
  \/ GenerateMovesCall \/ GenerateMovesForPieceCall \/ StatusCall
  \/ BotSearchCall \/ ResetCall

SpecCalls == InitCalls /\ [][NextCalls]_vars

(***************************************************************************)
(* One ChessBot serving requests on an engine whose position stays the     *)
(* same: bot is the ChessBot, gs the engine's live GameState, pre the      *)
(* GameState when the running (or last) request came in, last the request  *)
(* that completed last, left the requests that may still be made.          *)
(***************************************************************************)
\* a position whose generateMoves() raises: BothRightsPosition after Ng1-f3
KnightOutPosition == Play(BothRightsPosition, <<Pos(7, 6), Pos(5, 5)>>)

\* the positions the bot is asked about: the opening position, a position
\* with a move whose search raises, a quiet one, one without legal moves
\* and one whose move generation raises
BotPositions ==
  {getInitialGameState, BothRightsPosition, PawnPosition, ScholarsMate,
   KnightOutPosition}

\* RootOf with the pseudo-legal moves, the legality filter left out
RootOfUnfiltered(state) ==
  Eval(PseudoMoves(state, state.turn), LAMBDA generated :
    IF generated.div
    THEN [of |-> state, div |-> TRUE, moves |-> <<>>, below |-> <<>>, keys |-> <<>>]
    ELSE Eval(MoveArray(generated.moves), LAMBDA moves :
           [of |-> state, div |-> FALSE, moves |-> moves,
            below |-> [i \in 1..Len(moves) |-> SearchBelow(state, moves[i])],
            keys |-> [i \in 1..Len(moves) |->
                        getPositionKey(makeMove(state, moves[i]).state)]]))

\* what a request finds at the root of the position `of`: the array
\* generateMoves() returns (or div), and for each of its moves what the
\* search below it gives and the key of the position after it.  The engine
\* is asked about one position, so the bot holds this from the first
\* request on.
RootOf(state) ==
  Eval(generateMoves(state), LAMBDA generated :
    IF generated.div
    THEN [of |-> state, div |-> TRUE, moves |-> <<>>, below |-> <<>>, keys |-> <<>>]
    ELSE Eval(MoveArray(generated.moves), LAMBDA moves :
           [of |-> state, div |-> FALSE, moves |-> moves,
            below |-> [i \in 1..Len(moves) |-> SearchBelow(state, moves[i])],
            keys |-> [i \in 1..Len(moves) |->
                        getPositionKey(makeMove(state, moves[i]).state)]]))

\* RootOf(state), taken from the bot when it holds it for this position
Root(b, state) == IF b.root.of = state THEN b.root ELSE RootOf(state)

\* what searchAtDepth returns when its loop has run for the first
\* `searched` root moves: the first move with the highest score, or
\* moves[0] with -Infinity when no move gave a score
IterationResult(root, searched) ==
  Eval({ i \in 1..searched :
           /\ root.below[i].made /\ ~root.below[i].raised
           /\ root.below[i].score > NegativeInfinity },
       LAMBDA scored :
         IF scored = {} THEN [move |-> root.moves[1], score |-> NegativeInfinity]
         ELSE Eval(CHOOSE i \in scored :
                     \A j \in scored :
                        \/ root.below[j].score < root.below[i].score
                        \/ root.below[j].score = root.below[i].score /\ i <= j,
                   LAMBDA best : [move |-> root.moves[best],
                                  score |-> root.below[best].score]))

\* `let bestMove = moves[0]` of getBestMoveWithAnalysis with null instead
InitialBestMoveNull(root) == NoMove

\* `let bestMove = moves[0]` of getBestMoveWithAnalysis
InitialBestMove(root) == root.moves[1]

\* setDifficulty that clears nothing
TablesAfterSetDifficultyKept(tables) == tables

\* the tables after setDifficulty
TablesAfterSetDifficulty(tables) == ClearedTables

\* the bot when a request has come in: setDifficulty, positionCount and
\* startTime set, nothing searched yet
Entered(b, root, level) ==
  [b EXCEPT
     !.root = root,
     !.difficulty = IF level = Undefined THEN b.difficulty ELSE setDifficulty(level[1]),
     !.tables = IF level = Undefined THEN b.tables
                ELSE TablesAfterSetDifficulty(b.tables),
     !.level = level,
     !.entered = [difficulty |-> b.difficulty, tables |-> b.tables],
     !.previous = IF /\ b.outcome = "returned" /\ b.clock = 0
                     /\ level # Undefined /\ b.level = level
                  THEN [level |-> b.level, move |-> b.analysis.move,
                        evaluation |-> b.analysis.evaluation, held |-> TRUE]
                  ELSE NoPrevious,
     !.pc = "idle", !.depth = 0, !.bestMove = NoMove,
     !.bestScore = NegativeInfinity, !.searchDepth = 0, !.clock = 0,
     !.iterations = 0, !.complete = NoIteration, !.cut = FALSE,
     !.caught = FALSE, !.drawn = FALSE, !.outcome = "none",
     !.analysis = NoAnalysis]

\* the bot when the request has returned `analysis`
Returned(b, analysis) ==
  [b EXCEPT !.pc = "idle", !.outcome = "returned", !.analysis = analysis,
            !.depth = 0, !.bestMove = NoMove, !.bestScore = NegativeInfinity,
            !.searchDepth = 0]

\* getBestMoveWithAnalysis up to the iterative deepening: the bots it can
\* leave, one for each value Math.random() can give
Request(b, state, found, level) ==
  Eval(found, LAMBDA root :
    Eval(Entered(b, root, level), LAMBDA start :
      IF root.div THEN {[start EXCEPT !.outcome = "rejected"]}
      ELSE IF Len(root.moves) = 0 THEN {Returned(start, Analysis(NoMove, 0, 0))}
      ELSE Eval(goodOpeningMoves(state, { root.moves[i] : i \in 1..Len(root.moves) }),
                LAMBDA book :
        Eval([start EXCEPT !.drawn = TRUE], LAMBDA drew :
          IF book # {} /\ start.difficulty >= 3
          THEN { Returned(drew, Analysis(move, 0, 1)) : move \in book }
          ELSE (IF start.difficulty <= 2
                THEN { Returned(drew, Analysis(root.moves[i], 0, 1)) :
                         i \in 1..Len(root.moves) }
                ELSE {})
               \cup {[start EXCEPT !.pc = "search", !.depth = 1,
                                   !.bestMove = InitialBestMove(root),
                                   !.bestScore = NegativeInfinity,
                                   !.searchDepth = 1,
                                   !.drawn = (book # {} \/ start.difficulty <= 2)]}))))

\* the request as a call: rejected ("X"), returned ("T") or pending ("P")
Completed(b) ==
  IF b.outcome = "rejected" THEN Call("getBestMoveWithAnalysis", NoMove, "X")
  ELSE IF b.outcome = "returned"
  THEN Call("getBestMoveWithAnalysis", b.analysis.move, "T")
  ELSE Call("getBestMoveWithAnalysis", NoMove, "P")

InitBot ==
  /\ gs \in BotPositions
  /\ pre = gs
  /\ last = Call("new", NoMove, "T")
  /\ left = MaxRequests
  /\ bot = NewBot
  /\ game = NoGame
  /\ stack = <<>>

\* getBestMoveWithAnalysis(engine, level) from its first line to the first
\* iteration, or to the return that comes before
BotRequest ==
  /\ bot.pc = "idle"
  /\ left > 0
  /\ \E after \in {generateMovesAfter(gs, gs.turn)}, root \in {Root(bot, gs)} :
       \E level \in Levels :
          \E b \in Request(bot, gs, root, level) :
             /\ bot' = b
             /\ last' = Completed(b)
             /\ gs' = after
  /\ pre' = gs
  /\ left' = left - 1
  /\ UNCHANGED <<game, stack>>

\* the time check at the head of the depth loop finds 0.8 * maxTime passed
TimeUp ==
  /\ bot.pc = "search"
  /\ bot.depth <= MaxTimedDepth
  /\ bot' = [bot EXCEPT !.pc = "finish",
                        !.clock = IF bot.clock < 1 THEN 1 ELSE bot.clock]
  /\ UNCHANGED <<gs, pre, last, left, game, stack>>

\* the bot after searchAtDepth(engine, depth) ran for `searched` root moves
\* and the rest of the body of the depth loop
Iterated(b, root, searched) ==
  Eval(IterationResult(root, searched), LAMBDA result :
    [b EXCEPT
       !.bestMove = result.move, !.bestScore = result.score,
       !.searchDepth = b.depth,
       !.iterations = 1,
       !.tables = IF b.depth < 2 THEN b.tables
                  ELSE [b.tables EXCEPT !.transposition =
                          @ \cup { root.keys[i] :
                                     i \in { j \in 1..searched : root.below[j].stored } }],
       !.caught = b.caught \/ \E i \in 1..searched : root.below[i].raised,
       !.complete = IF searched = Len(root.moves)
                    THEN [depth |-> b.depth, move |-> result.move,
                          score |-> result.score]
                    ELSE b.complete,
       !.cut = searched < Len(root.moves),
       !.clock = IF searched < Len(root.moves) THEN 2 ELSE b.clock,
       !.pc = IF \/ Abs(result.score) > 19000
                 \/ b.depth >= maxSearchDepth(b.difficulty)
                 \/ searched < Len(root.moves)
              THEN "finish" ELSE "search",
       !.depth = b.depth + 1])

\* one pass of the depth loop: searchAtDepth searches every root move, or
\* its time check ends it after some of them
SearchIteration ==
  /\ bot.pc = "search"
  /\ \E root \in {Root(bot, gs)} :
       \E searched \in { k \in (IF bot.depth <= MaxTimedDepth THEN CutPoints ELSE {})
                                  \cup {Len(root.moves)} : k <= Len(root.moves) } :
          /\ bot' = Iterated(bot, root, searched)
          /\ gs' = SearchRootLoop(gs, SubSeq(root.moves, 1, searched), 1)
  /\ UNCHANGED <<pre, last, left, game, stack>>

\* the strategic randomness at every difficulty
StrategicRandomnessAlways(difficulty) == TRUE

\* `this.difficulty < 7`: Math.random() may replace the move found
StrategicRandomness(difficulty) == difficulty < 7

\* the moves the strategic randomness draws from
goodMoves(root) ==
  { root.moves[i] : i \in 1..(IF Len(root.moves) < 5 THEN Len(root.moves) ELSE 5) }

\* after the depth loop: the strategic randomness and the return
BotReturn ==
  /\ bot.pc = "finish"
  /\ \E move \in {bot.bestMove}
                   \cup (IF StrategicRandomness(bot.difficulty)
                         THEN goodMoves(Root(bot, gs)) ELSE {}) :
       \E b \in {Returned([bot EXCEPT !.drawn = bot.drawn
                                          \/ StrategicRandomness(bot.difficulty)],
                          Analysis(move, bot.bestScore, bot.searchDepth))} :
          /\ bot' = b
          /\ last' = Completed(b)
  /\ UNCHANGED <<gs, pre, left, game, stack>>

NextBot == BotRequest \/ TimeUp \/ SearchIteration \/ BotReturn

SpecBot == InitBot /\ [][NextBot]_vars

(***************************************************************************)
(* The rules of chess the properties are stated against: which squares a   *)
(* piece attacks, written from the rules and not from the engine's move    *)
(* generation.                                                             *)
(***************************************************************************)
\* `to` lies on a rook or bishop line from `from` and nothing stands between
LineAttack(board, from, to, directions) ==
  \E d \in directions, n \in 1..7 :
     /\ to.row = from.row + n * d[1]
     /\ to.col = from.col + n * d[2]
     /\ \A k \in 1..(n - 1) : board[from.row + k * d[1]][from.col + k * d[2]] = NoPiece

\* the piece on `from` attacks the square `to`, whatever stands on `to`
Attacks(board, from, to) ==
  LET piece == board[from.row][from.col]
      dr == to.row - from.row
      dc == to.col - from.col
  IN CASE piece.type = "pawn" ->
            dr = (IF piece.color = "white" THEN -1 ELSE 1) /\ Abs(dc) = 1
       [] piece.type = "knight" -> <<dr, dc>> \in KnightOffsets
       [] piece.type = "king" -> <<dr, dc>> \in KingOffsets
       [] piece.type = "rook" -> LineAttack(board, from, to, RookDirections)
       [] piece.type = "bishop" -> LineAttack(board, from, to, BishopDirections)
       [] piece.type = "queen" ->
            LineAttack(board, from, to, RookDirections \cup BishopDirections)
       [] OTHER -> FALSE

\* some piece of byColor attacks the square pos
Attacked(board, pos, byColor) ==
  \E r \in Rows, c \in Cols :
     board[r][c].color = byColor /\ Attacks(board, Pos(r, c), pos)

\* the squares holding a king of the color
Kings(board, color) ==
  { p \in { Pos(r, c) : r \in Rows, c \in Cols } :
      board[p.row][p.col] = Pc("king", color) }

\* a successful makeMove has just returned
Moved == last.op = "makeMove" /\ last.result = "T"

(***************************************************************************)
(* Properties                                                              *)
(***************************************************************************)
\* C1: under legal play every move generateMoves() returns is accepted by
\* makeMove, and after it the king of the color that moved is not attacked
\* by any piece of the other color (castling, en passant and promotion
\* moves included).
C1_GeneratedMovesKeepKingSafe ==
  last.op = "makeMove" =>
    /\ last.result = "T"
    /\ \A k \in Kings(gs.board, last.move.piece.color) :
         ~Attacked(gs.board, k, Opponent(last.move.piece.color))

\* C1 witness: a generated castling move has been applied
C1_Witness == Moved /\ last.move.isCastling

\* the move is one of the three kinds of invalid submission: the source
\* square does not hold the named piece, the piece is not of the side to
\* move, or the destination is none of the piece's legal destinations
InvalidSubmission(state, move) ==
  \/ getPiece(state.board, move.from) # move.piece
  \/ move.piece.color # state.turn
  \/ \E generated \in {generateMoves(state)} :
        /\ ~generated.div
        /\ ~\E m \in generated.moves : m.from = move.from /\ m.to = move.to

\* C2: makeMove answers false to every invalid submission (no such piece on
\* the source square, piece of the side not to move, destination not legal
\* for the piece) and leaves the game state as it was.
C2_InvalidSubmissionRejected ==
  (last.op = "makeMove" /\ InvalidSubmission(pre, last.move)) =>
    (last.result = "F" /\ gs = pre)

\* the squares a castling king starts on, crosses and lands on, both wings
CastlingSquares == { Pos(r, c) : r \in {0, 7}, c \in 2..6 }

\* C3: in every position of legal play generateMoves(), isInCheck() (for
\* either color) and isSquareAttacked() (on the squares castling asks
\* about, by either color) return: none of them recurses without end.
C3_GenerationTerminates ==
  /\ ~generateMoves(gs).div
  /\ \A color \in Colors : isInCheck(gs, color) # "X"
  /\ \A pos \in CastlingSquares, color \in Colors :
       isSquareAttacked(gs, pos, color) # "X"

\* the castling move is one the rules allow: the right is held, the squares
\* between king and rook are empty, and the king's start, transit and
\* destination squares are not attacked
CastlingAllowed(state, move) ==
  LET white == move.piece.color = "white"
      kingSide == move.to.col = 6
      row == IF white THEN 7 ELSE 0
      right == IF white THEN (IF kingSide THEN "whiteKingSide" ELSE "whiteQueenSide")
               ELSE (IF kingSide THEN "blackKingSide" ELSE "blackQueenSide")
      between == IF kingSide THEN {5, 6} ELSE {1, 2, 3}
      path == IF kingSide THEN {4, 5, 6} ELSE {2, 3, 4}
  IN /\ state.castlingRights[right]
     /\ \A c \in between : state.board[row][c] = NoPiece
     /\ \A c \in path : ~Attacked(state.board, Pos(row, c), Opponent(move.piece.color))

\* C4: every castling move generateMoves() returns has its right held, the
\* squares between king and rook empty, and the king's start, transit and
\* destination squares not attacked (a pawn attacks the two squares
\* diagonally ahead of it, occupied or not).
C4_CastlingOnlyWhenSafe ==
  \A generated \in {generateMoves(gs)} :
     \A move \in generated.moves : move.isCastling => CastlingAllowed(gs, move)

\* C5: under legal play the board always holds exactly one white king and
\* exactly one black king.
C5_OneKingEach ==
  \A color \in Colors : Cardinality(Kings(gs.board, color)) = 1

\* C5 witness: a king has just moved (and is still the only one)
C5_Witness ==
  /\ Moved
  /\ last.move.piece.type = "king"
  /\ Kings(gs.board, last.move.piece.color) = {last.move.to}

\* the four rights, each with the color, and the row and column of the
\* corner its rook starts on
CastlingCorners ==
  { <<"whiteKingSide", "white", 7, 7>>, <<"whiteQueenSide", "white", 7, 0>>,
    <<"blackKingSide", "black", 0, 7>>, <<"blackQueenSide", "black", 0, 0>> }

\* the move is one that ends the right x: the king of the color moves, a
\* rook of the color leaves the corner, or a rook of the color is captured
\* on the corner
EndsRight(move, x) ==
  \/ move.piece = Pc("king", x[2])
  \/ move.piece = Pc("rook", x[2]) /\ move.from = Pos(x[3], x[4])
  \/ move.capturedPiece = Pc("rook", x[2]) /\ move.to = Pos(x[3], x[4])

\* C6: across a call of makeMove, isLegalMove, moveToNotation or the bot's
\* search no castling right that was false is true afterwards, and a
\* successful makeMove leaves a right false when the king of its color
\* moved, its rook left the corner, or a rook of its color was captured on
\* the corner.
C6_CastlingRightsNeverReturn ==
  /\ last.op \notin {"new", "reset"} =>
       \A x \in CastlingCorners :
          gs.castlingRights[x[1]] => pre.castlingRights[x[1]]
  /\ Moved =>
       \A x \in CastlingCorners :
          EndsRight(last.move, x) => ~gs.castlingRights[x[1]]

\* C6 witness: a rook was captured on a1 while White still held the
\* queen-side right, and the right is gone
C6_Witness ==
  /\ Moved
  /\ last.move.capturedPiece = Pc("rook", "white")
  /\ last.move.to = Pos(7, 0)
  /\ pre.castlingRights.whiteQueenSide
  /\ ~gs.castlingRights.whiteQueenSide

\* the move is a pawn's advance by two squares
DoubleAdvance(move) ==
  move.piece.type = "pawn" /\ Abs(move.to.row - move.from.row) = 2

\* the square a pawn advancing by two passes over
PassedOver(move) == Pos((move.from.row + move.to.row) \div 2, move.from.col)

\* C7: after a successful makeMove under legal play enPassantTarget is set
\* exactly when the move was a two-square pawn advance, and is then the
\* square the pawn passed over; after every other move it is null.
C7_EnPassantTargetOnePly ==
  Moved =>
    /\ (gs.enPassantTarget # NoPos) <=> DoubleAdvance(last.move)
    /\ DoubleAdvance(last.move) => gs.enPassantTarget = PassedOver(last.move)

\* C7 witness: 1.e4 from the initial position leaves the target on row 5,
\* col 4
C7_Witness ==
  /\ Moved
  /\ pre = getInitialGameState
  /\ last.move.from = Pos(6, 4)
  /\ last.move.to = Pos(4, 4)
  /\ gs.enPassantTarget = Pos(5, 4)

\* the move takes en passant in the position: it is marked so, or it is a
\* pawn leaving its file for an empty square
TakesEnPassant(state, move) ==
  \/ move.isEnPassant
  \/ /\ move.piece.type = "pawn"
     /\ move.to.col # move.from.col
     /\ state.board[move.to.row][move.to.col] = NoPiece

\* C8: an en passant move made under legal play answers a two-square
\* advance of an enemy pawn made on the ply before, is made by a pawn
\* standing beside that pawn, puts the capturing pawn on the en-passant
\* target square, and empties the square of the pawn that advanced, one
\* rank behind the destination.
C8_EnPassantOnlyAfterDoubleAdvance ==
  (last.op = "makeMove" /\ TakesEnPassant(pre, last.move)) =>
    /\ last.result = "T"
    /\ DoubleAdvance(pre.lastMove)
    /\ pre.lastMove.piece.color = Opponent(last.move.piece.color)
    /\ last.move.from.row = pre.lastMove.to.row
    /\ Abs(last.move.from.col - pre.lastMove.to.col) = 1
    /\ last.move.to = pre.enPassantTarget
    /\ last.move.to = PassedOver(pre.lastMove)
    /\ pre.lastMove.to =
         Pos(last.move.to.row + (IF last.move.piece.color = "white" THEN 1 ELSE -1),
             last.move.to.col)
    /\ gs.board[last.move.to.row][last.move.to.col] = last.move.piece
    /\ gs.board[pre.lastMove.to.row][pre.lastMove.to.col] = NoPiece
    /\ gs.board[last.move.from.row][last.move.from.col] = NoPiece

\* C8 witness: an en passant capture has been made
C8_Witness ==
  /\ Moved
  /\ last.move.isEnPassant
  /\ pre.board[pre.lastMove.to.row][pre.lastMove.to.col] =
       Pc("pawn", Opponent(last.move.piece.color))

\* C9: a successful makeMove gives the turn to the other color and adds 1
\* to fullMoveNumber exactly when the new turn is white; a makeMove that
\* answers false changes neither.
C9_TurnAndMoveNumber ==
  last.op = "makeMove" =>
    /\ last.result = "T" =>
         /\ gs.turn = Opponent(pre.turn)
         /\ gs.fullMoveNumber =
              pre.fullMoveNumber + (IF gs.turn = "white" THEN 1 ELSE 0)
    /\ last.result = "F" =>
         /\ gs.turn = pre.turn
         /\ gs.fullMoveNumber = pre.fullMoveNumber

\* C9 witness: Black has moved, the turn is White's and the move number
\* has grown by one
C9_Witness ==
  /\ Moved
  /\ pre.turn = "black"
  /\ gs.turn = "white"
  /\ gs.fullMoveNumber = pre.fullMoveNumber + 1

\* C10: when makeMove answers false the game state is the one before the
\* call, field for field.
C10_RejectedMoveLeavesState ==
  (last.op = "makeMove" /\ last.result = "F") => gs = pre

\* C10 witness: makeMove has answered false to a king stepping onto an
\* attacked square
C10_Witness ==
  /\ last.op = "makeMove"
  /\ last.result = "F"
  /\ last.move.piece = Pc("king", pre.turn)
  /\ getPiece(pre.board, last.move.from) = last.move.piece

\* what isCheckmate() and isGameOver() answer after the sequence
ScholarsMateStatus == <<isCheckmate(ScholarsMate), isGameOver(ScholarsMate)>>

\* isCheckmate, isStalemate and isGameOver all return in the state, and
\* their answers are the ones isInCheck and generateMoves determine
TerminalStatusRight(state) ==
  \A c \in {isInCheck(state, state.turn)}, generated \in {generateMoves(state)},
     mate \in {isCheckmate(state)}, stale \in {isStalemate(state)},
     over \in {isGameOver(state)} :
     /\ mate \in {"T", "F"} /\ stale \in {"T", "F"} /\ over \in {"T", "F"}
     /\ ~generated.div
     /\ mate = "T" <=> (c = "T" /\ generated.moves = {})
     /\ stale = "T" <=> (c = "F" /\ generated.moves = {})
     /\ ~(mate = "T" /\ stale = "T")
     /\ over = "T" <=> (mate = "T" \/ stale = "T")

\* C11: in every position of legal play isCheckmate() is true exactly when
\* the side to move is in check and has no legal move, isStalemate() exactly
\* when it is not in check and has no legal move, never both, isGameOver()
\* is their disjunction; after 1.e4 e5 2.Bc4 Nc6 3.Qh5 Nf6 4.Qxf7
\* isCheckmate() and isGameOver() are true.
C11_TerminalStatus ==
  /\ TerminalStatusRight(gs)
  /\ ScholarsMateStatus = <<"T", "T">>

\* C12: in the initial position, after the constructor or reset(),
\* generateMoves('white') returns exactly 20 moves: 16 pawn moves and 4
\* knight moves.
C12_TwentyOpeningMoves ==
  (last.op \in {"new", "reset"} /\ gs = getInitialGameState) =>
    \A generated \in {generateMovesFor(gs, "white")} :
       /\ ~generated.div
       /\ Cardinality(generated.moves) = 20
       /\ Cardinality({ m \in generated.moves : m.piece.type = "pawn" }) = 16
       /\ Cardinality({ m \in generated.moves : m.piece.type = "knight" }) = 4

\* C12 witness: reset() has put the initial position back after a move
C12_Witness ==
  /\ last.op = "reset"
  /\ gs = getInitialGameState
  /\ Cardinality(generateMovesFor(gs, "white").moves) = 20

\* the move takes a pawn to the far rank
ReachesFarRank(move) ==
  /\ move.piece.type = "pawn"
  /\ move.to.row = (IF move.piece.color = "white" THEN 0 ELSE 7)

\* C13: under legal play a pawn move to the far rank always carries a
\* promotion piece and generateMoves() offers it with each of queen, rook,
\* bishop and knight; after makeMove the destination holds the chosen piece
\* in the mover's color, and no pawn stands on row 0 or row 7.
C13_PromotionInFour ==
  Moved =>
    /\ ReachesFarRank(last.move) =>
         /\ last.move.promotionPiece \in PromotionPieces
         /\ { m.promotionPiece :
               m \in { g \in generateMoves(pre).moves :
                         g.from = last.move.from /\ g.to = last.move.to } }
              = PromotionPieces
         /\ gs.board[last.move.to.row][last.move.to.col] =
              Pc(last.move.promotionPiece, last.move.piece.color)
    /\ last.move.promotionPiece # "none" => ReachesFarRank(last.move)
    /\ \A r \in {0, 7}, c \in Cols : gs.board[r][c].type # "pawn"

\* C13 witness: a pawn has captured onto the far rank and become a knight
C13_Witness ==
  /\ Moved
  /\ ReachesFarRank(last.move)
  /\ last.move.capturedPiece # NoPiece
  /\ last.move.promotionPiece = "knight"
  /\ gs.board[last.move.to.row][last.move.to.col] = Pc("knight", last.move.piece.color)

\* the operations that answer a question about the position
Queries ==
  {"isLegalMove", "generateMoves", "generateMovesForPiece", "isInCheck",
   "isCheckmate", "isStalemate", "isGameOver", "moveToNotation"}

\* C14: when isLegalMove, generateMoves, generateMovesForPiece, isInCheck,
\* isCheckmate, isStalemate, isGameOver or moveToNotation has returned (or
\* raised), for any move argument, the GameState equals the one before the
\* call, field for field.
C14_QueriesLeaveState ==
  last.op \in Queries => gs = pre

\* C14 witness: moveToNotation was given a move that makeMove carries out
\* and that changes the board, and the state is the one before the call
C14_Witness ==
  /\ last.op = "moveToNotation"
  /\ ~last.move.isCastling
  /\ makeMove(pre, last.move).state.board # pre.board
  /\ gs = pre

\* a request has completed by returning an AnalysisResult
HasReturned == bot.pc = "idle" /\ bot.outcome = "returned"

C16_SearchErrorsContained ==
  /\ bot.outcome # "rejected"
  /\ (HasReturned /\ bot.caught /\ ~StrategicRandomness(bot.difficulty)) =>
       bot.analysis.move = bot.complete.move

\* C17: when the time budget ran out while an iteration had not searched
\* every root move, the move, score and depth returned are those of the last
\* iteration that did search every root move.
C17_InterruptedIterationDiscarded ==
  (/\ HasReturned /\ bot.cut /\ bot.complete.depth >= 1
   /\ ~StrategicRandomness(bot.difficulty)) =>
    bot.analysis = Analysis(bot.complete.move, bot.complete.score, bot.complete.depth)

\* the side to move of the position the request was made in has no legal move
NoLegalMove == bot.root.of = pre /\ ~bot.root.div /\ Len(bot.root.moves) = 0

\* C18: getBestMoveWithAnalysis returns move = null if and only if the side
\* to move has no legal move; a search that failed or timed out in a
\* position with legal moves does not return null.
C18_NullOnlyWithoutMoves ==
  HasReturned => (bot.analysis.move = NoMove <=> NoLegalMove)

\* C18 witness: the clock ran out before any iteration had searched every
\* root move, in a position with legal moves, and a move was returned
C18_Witness ==
  /\ HasReturned
  /\ ~NoLegalMove
  /\ bot.clock > 0
  /\ bot.complete.depth = 0
  /\ bot.analysis.move # NoMove

\* this request and the one before it ran on the same position with the
\* same difficulty argument, each from empty tables and with the clock
\* within the budget to the end, and both returned
TwoRuns ==
  /\ HasReturned
  /\ bot.clock = 0
  /\ bot.previous.held
  /\ bot.level # Undefined
  /\ bot.previous.level = bot.level

SameAnswer ==
  /\ bot.analysis.move = bot.previous.move
  /\ bot.analysis.evaluation = bot.previous.evaluation

JustEntered == bot.pc = "search" /\ bot.iterations = 0

\* C20: the transposition, killer-move and history tables keep their
\* entries from one request to the next: a request that passes the
\* difficulty the bot already has leaves them as they were, and only a
\* request that changes the difficulty empties them.
C20_TablesKeptAtSameDifficulty ==
  JustEntered =>
    /\ (bot.level # Undefined /\ bot.difficulty = bot.entered.difficulty) =>
         /\ bot.tables.transposition = bot.entered.tables.transposition
         /\ bot.tables.history = bot.entered.tables.history
    /\ bot.tables.transposition # bot.entered.tables.transposition =>
         bot.difficulty # bot.entered.difficulty

\* the king and the rook of the right x stand where castling takes them from
OnHomeSquares(state, x) ==
  /\ getPiece(state.board, Pos(x[3], 4)) = Pc("king", x[2])
  /\ getPiece(state.board, Pos(x[3], x[4])) = Pc("rook", x[2])

\* C29: in every state reached by generated legal moves, a castling right
\* that is true has the king of its color on column 4 of its back row and
\* a rook of its color on the matching corner.
C29_RightsHavePieces ==
  \A x \in CastlingCorners : gs.castlingRights[x[1]] => OnHomeSquares(gs, x)

\* C29 witness: a generated move took a rook off or from its corner, or
\* moved a king, the right it ended is false, and a right that is still
\* true has its king and rook at home
C29_Witness ==
  /\ Moved
  /\ \E x \in CastlingCorners :
        /\ pre.castlingRights[x[1]] /\ ~gs.castlingRights[x[1]]
        /\ ~OnHomeSquares(gs, x)
  /\ \E y \in CastlingCorners : gs.castlingRights[y[1]] /\ OnHomeSquares(gs, y)

\* the move is one generateMoves() gave for the position of the request,
\* makeMove accepts it there, and after it the mover's king is not in check
PlayableAtRequest(move) ==
  /\ bot.root.of = pre
  /\ \E i \in 1..Len(bot.root.moves) : bot.root.moves[i] = move
  /\ \E made \in {makeMove(pre, move)} :
        /\ made.result = "T"
        /\ isInCheck(made.state, move.piece.color) = "F"

\* C28: a move that getBestMoveWithAnalysis returns (opening move, random
\* move, searched move, move after a time-out, random substitute) is a
\* member of generateMoves() for the position of the request, so makeMove
\* of it succeeds and leaves the mover's king out of check.
C28_ReturnedMoveIsLegal ==
  (HasReturned /\ bot.analysis.move # NoMove) => PlayableAtRequest(bot.analysis.move)

\* C28 witness: the strategic randomness replaced the move the search
\* found, and the substitute is playable
C28_Witness ==
  /\ HasReturned
  /\ StrategicRandomness(bot.difficulty)
  /\ bot.complete.depth >= 1
  /\ bot.analysis.move # NoMove
  /\ bot.analysis.move # bot.complete.move
  /\ PlayableAtRequest(bot.analysis.move)

(***************************************************************************)
(* The ChessGame component (src/unnamed/part_000).  A handler, a timer     *)
(* callback and the code after an await each run to their end before the   *)
(* next one starts.  makeBotMove is followed in three steps: up to its     *)
(* await, the settling of the promise of getBestMoveWithAnalysis, and the  *)
(* code after the await.  Of moveHistory the model keeps the entry         *)
(* appended last.                                                          *)
(***************************************************************************)
\* moves the exploration of a game may apply
MaxGamePly == 1

GameModes == {"player-vs-bot", "bot-vs-bot"}

\* the slider values explored: the initial 7 and one below it
Difficulties == {5, 7}

\* what the promise of getBestMoveWithAnalysis settles with
NoResult == [kind |-> "none", move |-> NoMove]

\* the useState initial values, on an engine in the state `engine`
NewGame(engine) ==
  [mounted |-> TRUE, isPlaying |-> FALSE, thinking |-> FALSE,
   gameMode |-> "player-vs-bot", selectedPiece |-> NoPos, validMoves |-> {},
   botDifficulty |-> 7, turn |-> engine.turn, notation |-> <<>>,
   timer |-> "none",
   deps |-> <<FALSE, engine.turn, 7, FALSE, "player-vs-bot">>,
   phase |-> "idle", inflight |-> 0, from |-> engine, result |-> NoResult]

\* KingSidePosition after ...Kg7-f7: White may castle, and the rook lands on
\* the file of the black king
CastleWithCheckPosition == Play(KingSidePosition, <<Pos(1, 6), Pos(1, 5)>>)

\* PawnPosition after ...d7-d5: White may take en passant on d6 and promote
\* on a8 or b8
EnPassantPosition == Play(PawnPosition, <<Pos(1, 3), Pos(3, 3)>>)

\* the positions a game is picked up in
GamePositions ==
  {KingSidePosition, PawnPosition, CastleWithCheckPosition, EnPassantPosition}

\* the dependency array of the two effects; makeBotMove stands for its own
\* dependencies botDifficulty, thinking and gameState.turn
Deps(g) == <<g.isPlaying, g.turn, g.botDifficulty, g.thinking, g.gameMode>>

\* the timer the two effects leave: the condition of the first or of the
\* second effect holds, and isGameOver() returned false
EffectTimer(g, engine) ==
  IF /\ g.isPlaying
     /\ ~g.thinking
     /\ \/ g.gameMode = "bot-vs-bot"
        \/ g.gameMode = "player-vs-bot" /\ g.turn = "black"
     /\ isGameOver(engine) = "F"
  THEN g.gameMode ELSE "none"

\* the component after the state updates of a task are rendered: when a
\* dependency changed, the cleanup clears the timer and the effects run again
Rendered(g, engine) ==
  IF Deps(g) = g.deps THEN g
  ELSE [g EXCEPT !.deps = Deps(g), !.timer = EffectTimer(g, engine)]

\* the event loop takes the next task (a click, a timer) when no
\* continuation of an await is waiting
TaskMayStartAnytime(g) == TRUE

TaskMayStart(g) == g.phase = "idle"

\* generateMovesForPiece(position) as selectPiece uses it: [div, moves]
PieceMoves(engine, position) ==
  Eval(getPiece(engine.board, position), LAMBDA piece :
    IF piece = NoPiece \/ piece.color # engine.turn THEN Moves({})
    ELSE Eval(generatePieceMoves(engine, position, piece), LAMBDA pseudo :
           IF pseudo.div \/ \E m \in pseudo.moves : isLegalMove(engine, m) = "X"
           THEN Diverges
           ELSE Moves({ m \in pseudo.moves : isLegalMove(engine, m) = "T" })))

\* selectPiece(position)
selectPiece(g, engine, position) ==
  Eval(PieceMoves(engine, position), LAMBDA moves :
    [g EXCEPT !.selectedPiece = position,
              !.validMoves = IF moves.div THEN {}
                             ELSE { m.to : m \in moves.moves }])

\* makePlayerMove(from, to): [success, game, engine, move]
makePlayerMove(g, engine, from, to) ==
  Eval(getPiece(engine.board, from), LAMBDA piece :
    IF g.thinking \/ piece = NoPiece
    THEN [success |-> FALSE, game |-> g, engine |-> engine, move |-> NoMove]
    ELSE Eval(PlayerMove(engine, from, to, piece), LAMBDA move :
      Eval(makeMove(engine, move), LAMBDA made :
        IF made.result # "T"
        THEN [success |-> FALSE, game |-> g, engine |-> made.state, move |-> move]
        ELSE Eval(moveToNotation(made.state, move), LAMBDA noted :
          IF noted.result = "X"
          THEN [success |-> FALSE, game |-> g, engine |-> noted.state,
                move |-> move]
          ELSE [success |-> TRUE,
                game |-> [g EXCEPT !.notation = noted.text,
                                   !.turn = noted.state.turn],
                engine |-> noted.state, move |-> move]))))

\* handleSquareClick(position) past its first test: [success, game, engine, move]
ClickOn(g, engine, position) ==
  LET piece == getPiece(engine.board, position)
      stays(h) == [success |-> FALSE, game |-> h, engine |-> engine,
                   move |-> NoMove]
      cleared == [g EXCEPT !.selectedPiece = NoPos, !.validMoves = {}]
  IN IF g.selectedPiece # NoPos
     THEN IF position \in g.validMoves
          THEN Eval(makePlayerMove(g, engine, g.selectedPiece, position),
                 LAMBDA r :
                   IF r.success
                   THEN [r EXCEPT !.game.selectedPiece = NoPos,
                                  !.game.validMoves = {}]
                   ELSE r)
          ELSE IF piece # NoPiece /\ piece.color = g.turn
          THEN stays(selectPiece(g, engine, position))
          ELSE stays(cleared)
     ELSE IF piece # NoPiece /\ piece.color = g.turn
     THEN stays(selectPiece(g, engine, position))
     ELSE stays(g)

\* the squares clicked: every occupied square, every square of validMoves,
\* and the first empty square that is not in validMoves
ClickSquares(g, engine) ==
  LET occupied == { i \in 0..63 : getPiece(engine.board, SquareAt(i)) # NoPiece }
      empty == { i \in 0..63 : i \notin occupied /\ SquareAt(i) \notin g.validMoves }
  IN { SquareAt(i) : i \in occupied } \cup g.validMoves
     \cup { SquareAt(i) : i \in { j \in empty : \A k \in empty : j <= k } }

\* the budget of moves after one more move from the position `engine`
MovesLeft(engine) ==
  IF engine = getInitialGameState THEN 0 ELSE left - 1

InitGame ==
  /\ gs \in GamePositions
  /\ pre = gs
  /\ last = Call("new", NoMove, "T")
  /\ left = MaxGamePly
  /\ bot = NewBot
  /\ game = NewGame(gs)
  /\ stack = <<>>

\* startGame()
StartGame ==
  /\ TaskMayStart(game)
  /\ game' = Rendered([game EXCEPT !.isPlaying = TRUE, !.selectedPiece = NoPos,
                                   !.validMoves = {}], gs)
  /\ UNCHANGED <<gs, pre, last, left, bot, stack>>

\* stopGame()
StopGame ==
  /\ TaskMayStart(game)
  /\ game' = Rendered([game EXCEPT !.isPlaying = FALSE, !.thinking = FALSE,
                                   !.selectedPiece = NoPos, !.validMoves = {}],
                      gs)
  /\ UNCHANGED <<gs, pre, last, left, bot, stack>>

\* resetGame()
ResetGame ==
  /\ TaskMayStart(game)
  /\ last.op # "new"
  /\ gs' = getInitialGameState
  /\ pre' = getInitialGameState
  /\ last' = Call("resetGame", NoMove, "T")
  /\ game' = Rendered([game EXCEPT !.isPlaying = FALSE, !.thinking = FALSE,
                                   !.selectedPiece = NoPos, !.validMoves = {},
                                   !.notation = <<>>,
                                   !.turn = getInitialGameState.turn],
                      getInitialGameState)
  /\ UNCHANGED <<left, bot, stack>>

\* handleGameModeChange(value)
HandleGameModeChange ==
  /\ TaskMayStart(game)
  /\ \E value \in GameModes :
       game' = Rendered([game EXCEPT !.gameMode = value, !.selectedPiece = NoPos,
                                     !.validMoves = {}, !.isPlaying = FALSE,
                                     !.thinking = FALSE], gs)
  /\ UNCHANGED <<gs, pre, last, left, bot, stack>>

\* handleDifficultyChange(value)
HandleDifficultyChange ==
  /\ TaskMayStart(game)
  /\ \E value \in Difficulties :
       game' = Rendered([game EXCEPT !.botDifficulty = value], gs)
  /\ UNCHANGED <<gs, pre, last, left, bot, stack>>

\* handleSquareClick(position) on any square
HandleSquareClick ==
  /\ TaskMayStart(game)
  /\ ~game.thinking
  /\ game.isPlaying
  /\ ~(game.gameMode = "player-vs-bot" /\ game.turn # "white")
  /\ isGameOver(gs) = "F"
  /\ \E position \in ClickSquares(game, gs) :
       \E r \in {ClickOn(game, gs, position)} :
          IF r.move = NoMove
          THEN /\ game' = Rendered(r.game, gs)
               /\ UNCHANGED <<gs, pre, last, left>>
          ELSE /\ left > 0
               /\ game' = Rendered(r.game, r.engine)
               /\ gs' = r.engine
               /\ pre' = gs
               /\ last' = Call("makePlayerMove", r.move,
                               IF r.success THEN "T" ELSE "F")
               /\ left' = MovesLeft(gs)
  /\ UNCHANGED <<bot, stack>>

\* a timer of one of the two effects fires: makeBotMove up to its await
BotTimer ==
  /\ TaskMayStart(game)
  /\ game.timer # "none"
  /\ left > 0
  /\ \E over \in {IF game.thinking THEN "X" ELSE isGameOver(gs)} :
       IF over = "X"
       THEN /\ game' = [game EXCEPT !.timer = "none"]
            /\ gs' = gs
       ELSE IF over = "T"
       THEN /\ game' = Rendered([game EXCEPT !.timer = "none",
                                             !.isPlaying = FALSE], gs)
            /\ gs' = gs
       ELSE /\ game' = [game EXCEPT !.timer = "none", !.thinking = TRUE,
                                    !.phase = "searching",
                                    !.inflight = game.inflight + 1,
                                    !.from = gs]
            /\ gs' = generateMovesAfter(gs, gs.turn)
  /\ UNCHANGED <<pre, last, left, bot, stack>>

\* what getBestMoveWithAnalysis can settle with in the position `engine`:
\* a rejection when generateMoves() raises, move: null when there is no
\* move, else a generated move (below difficulty 3 any of them is picked at
\* random; the opening book and the search return one of them)
BotResults(engine) ==
  Eval(generateMoves(engine), LAMBDA generated :
    IF generated.div THEN {[kind |-> "rejected", move |-> NoMove]}
    ELSE IF generated.moves = {} THEN {[kind |-> "null", move |-> NoMove]}
    ELSE { [kind |-> "move", move |-> m] : m \in generated.moves })

\* the promise of getBestMoveWithAnalysis settles
SearchSettles ==
  /\ game.phase = "searching"
  /\ \E result \in BotResults(gs) :
       game' = [game EXCEPT !.phase = "settled", !.result = result,
                            !.inflight = game.inflight - 1]
  /\ UNCHANGED <<gs, pre, last, left, bot, stack>>

\* makeBotMove after its await, with the finally clause:
\* [success, game, engine]
BotMoveApplied(g, engine) ==
  LET done(h) == [h EXCEPT !.thinking = FALSE, !.phase = "idle",
                           !.result = NoResult]
      failed(state) == [success |-> FALSE, engine |-> state,
                        game |-> done([g EXCEPT !.isPlaying = FALSE])]
  IN IF g.result.kind # "move" THEN failed(engine)
     ELSE Eval(moveToNotation(engine, g.result.move), LAMBDA noted :
       IF noted.result = "X" THEN failed(noted.state)
       ELSE Eval(makeMove(noted.state, g.result.move), LAMBDA made :
         IF made.result # "T" THEN failed(made.state)
         ELSE [success |-> TRUE, engine |-> made.state,
               game |-> done([g EXCEPT !.notation = noted.text,
                                       !.turn = made.state.turn])]))

\* the code of makeBotMove after the await runs
BotMoveResumes ==
  /\ game.phase = "settled"
  /\ \E r \in {BotMoveApplied(game, gs)} :
       /\ game' = Rendered(r.game, r.engine)
       /\ gs' = r.engine
       /\ last' = Call("makeBotMove", game.result.move,
                       IF r.success THEN "T" ELSE "F")
  /\ pre' = gs
  /\ left' = MovesLeft(gs)
  /\ UNCHANGED <<bot, stack>>

NextGame ==
  \/ StartGame \/ StopGame \/ ResetGame \/ HandleGameModeChange
  \/ HandleDifficultyChange \/ HandleSquareClick \/ BotTimer
  \/ SearchSettles \/ BotMoveResumes

SpecGame == InitGame /\ [][NextGame]_vars

\* makePlayerMove was called with a pair generateMovesForPiece offers
OfferedPair ==
  /\ last.op = "makePlayerMove"
  /\ \E m \in PieceMoves(pre, last.move.from).moves : m.to = last.move.to

\* C25: for every from/to pair that generateMovesForPiece offers,
\* makePlayerMove(from, to) leaves the engine in the state that makeMove of
\* the generated legal move with that pair leaves it in (castling moves the
\* rook, en passant removes the captured pawn, a two-square push sets
\* enPassantTarget, a pawn on the last row is promoted).
C25_PlayerMoveIsGeneratedMove ==
  OfferedPair =>
    \E m \in PieceMoves(pre, last.move.from).moves :
       /\ m.to = last.move.to
       /\ gs = makeMove(pre, m).state

\* C26: at most one bot search is in flight, and from the start of a
\* search to the application of its result the engine holds the state the
\* search started from, under every interleaving of Start, Pause, Reset,
\* game-mode change, difficulty change, square clicks and the bot timers.
C26_OneSearchAtATime ==
  /\ game.inflight <= 1
  /\ game.phase # "idle" => gs = game.from

\* C26 witness: after a change of the game mode and of the difficulty a
\* timer started a search, and its result was applied to the state the
\* search started from
C26_Witness ==
  /\ last.op = "makeBotMove" /\ last.result = "T"
  /\ pre = game.from
  /\ game.gameMode = "bot-vs-bot"
  /\ game.botDifficulty = 5
  /\ game.inflight = 0

\* the check suffix of a notation string
Suffix(text) == IF Len(text) = 6 THEN text[6] ELSE ""

\* C27: every string appended to the move history, for a human move and
\* for a bot move, ends in '#' exactly when the move checkmated and in '+'
\* exactly when it gave check without mate.
C27_SuffixTellsCheck ==
  (last.op \in {"makePlayerMove", "makeBotMove"} /\ last.result = "T") =>
    Suffix(game.notation) =
      (IF isCheckmate(gs) = "T" THEN "#"
       ELSE IF isInCheck(gs, gs.turn) = "T" THEN "+" ELSE "")

(***************************************************************************)
(* The search of the bot, call by call (src/unnamed/part_001).  stack      *)
(* holds one frame for each call of searchAtDepth,                         *)
(* alphaBetaWithEnhancements and quiescenceSearch that has not returned;   *)
(* a step runs the frame on top up to its next call or to its return.      *)
(* Date.now() never passes the time budget here, and positionCount, which  *)
(* is only reported, is left out.  last describes what the step did: the   *)
(* position it evaluated, the entry it stored, the root move it scored.    *)
(***************************************************************************)
PositiveInfinity == -NegativeInfinity

\* -x + 1 and -x - 1 on numbers that may be infinite
PlusOne(x) == IF x = PositiveInfinity \/ x = NegativeInfinity THEN x ELSE x + 1
MinusOne(x) == IF x = PositiveInfinity \/ x = NegativeInfinity THEN x ELSE x - 1

Max2(a, b) == IF a >= b THEN a ELSE b
Min2(a, b) == IF a <= b THEN a ELSE b

\* the difficulty arguments of the searches explored: one below the levels
\* of null-move pruning (>= 6) and late-move reduction (>= 7), one with both
SearchLevels == {5, 7}

\* killerMoves.length after setDifficulty
KillerSlots == 20

\* the quiescence depth alphaBetaWithEnhancements starts with
QuiescenceDepth == 4

\* White mates with Ra1-a8.  White to move after ...Kh8-g8.
RookMatePosition ==
  Midgame({<<2, 6, "king", "white">>, <<7, 0, "rook", "white">>,
           <<0, 6, "king", "black">>},
          "white", Quiet(0, 7, 0, 6, "king", "black"),
          Rights(FALSE, FALSE, FALSE, FALSE), 50)

\* White stalemates with Kc6-c7 and checks with b6-b7; no reply of Black
\* to any move takes a piece.  White to move after ...Kb8-a8.
StalematePosition ==
  Midgame({<<2, 2, "king", "white">>, <<2, 1, "pawn", "white">>,
           <<0, 0, "king", "black">>},
          "white", Quiet(0, 1, 0, 0, "king", "black"),
          Rights(FALSE, FALSE, FALSE, FALSE), 60)

\* The pawns block each other and no capture is within reach; White
\* stalemates with Kd6-c7.  White to move after ...Kb8-a8.
BlockedPawnPosition ==
  Midgame({<<2, 3, "king", "white">>, <<2, 0, "pawn", "white">>,
           <<0, 0, "king", "black">>, <<1, 0, "pawn", "black">>},
          "white", Quiet(0, 1, 0, 0, "king", "black"),
          Rights(FALSE, FALSE, FALSE, FALSE), 62)

SearchPositions == {RookMatePosition, StalematePosition, BlockedPawnPosition}

\* what a step did
Event(op, of, move, score, depth) ==
  [op |-> op, of |-> of, move |-> move, score |-> score, depth |-> depth,
   alpha |-> 0, beta |-> 0, flag |-> "", first |-> FALSE]

NoReturn == [kind |-> "none", value |-> 0]
Value(v) == [kind |-> "value", value |-> v]
Raised == [kind |-> "raised", value |-> 0]

\* a frame of `fn` at its first line
Frame(fn, depth, alpha, beta, isMaximizing, originalDepth, engine) ==
  [fn |-> fn, pc |-> "enter", depth |-> depth, alpha |-> alpha, beta |-> beta,
   alpha0 |-> alpha, beta0 |-> beta, isMaximizing |-> isMaximizing,
   originalDepth |-> originalDepth, moves |-> <<>>, i |-> 1,
   bestScore |-> 0, bestMove |-> NoMove, moveCount |-> 0,
   saved |-> engine, key |-> "", first |-> FALSE]

\* the ChessBot before a request
SearchBot ==
  [pc |-> "idle", difficulty |-> 7, transpositionTable |-> <<>>,
   killerMoves |-> [d \in 0..(KillerSlots - 1) |-> <<>>],
   depth |-> 0, bestMove |-> NoMove, bestScore |-> NegativeInfinity,
   searchDepth |-> 1, outcome |-> "none", ret |-> NoReturn,
   nullMoves |-> FALSE]

Top(frames) == frames[Len(frames)]
Pop(frames) == SubSeq(frames, 1, Len(frames) - 1)
SetTop(frames, f) == [frames EXCEPT ![Len(frames)] = f]

\* the machine after the frame on top returned `value`
Return(engine, b, frames, value, event) ==
  [engine |-> engine, bot |-> [b EXCEPT !.ret = Value(value)],
   stack |-> Pop(frames), last |-> event]

\* the machine after an exception left the frame on top
Raise(engine, b, frames, event) ==
  [engine |-> engine, bot |-> [b EXCEPT !.ret = Raised],
   stack |-> Pop(frames), last |-> event]

Running(engine, b, frames, event) ==
  [engine |-> engine, bot |-> [b EXCEPT !.ret = NoReturn], stack |-> frames,
   last |-> event]

movesEqual(move1, move2) ==
  /\ move1.from.row = move2.from.row /\ move1.from.col = move2.from.col
  /\ move1.to.row = move2.to.row /\ move1.to.col = move2.to.col

isCentralMove(move) ==
  /\ move.piece.type \in {"knight", "bishop"}
  /\ move.to.row >= 2 /\ move.to.row <= 5
  /\ move.to.col >= 2 /\ move.to.col <= 5

isDevelopmentMove(move) ==
  /\ move.piece.type \in {"knight", "bishop"}
  /\ move.from.row = (IF move.piece.color = "white" THEN 7 ELSE 0)

\* transpositionTable.get(key)?.bestMove, or NoMove
TableMove(b, key) ==
  IF key \in DOMAIN b.transpositionTable
  THEN b.transpositionTable[key].bestMove ELSE NoMove

\* the score the comparator of orderMovesAdvanced gives a move; the history
\* table is never written, so its term is 0
OrderScore(b, tableMove, move, depth) ==
  (IF tableMove # NoMove /\ movesEqual(move, tableMove) THEN 10000 ELSE 0)
  + (IF move.capturedPiece # NoPiece
     THEN 1000 + 10 * getPieceValue(move.capturedPiece.type)
          - getPieceValue(move.piece.type)
     ELSE 0)
  + (IF depth < KillerSlots
        /\ \E k \in 1..Len(b.killerMoves[depth]) :
              movesEqual(move, b.killerMoves[depth][k])
     THEN 900 ELSE 0)
  + (IF move.promotionPiece # "none" THEN 800 ELSE 0)
  + (IF move.isCastling THEN 50 ELSE 0)
  + (IF isCentralMove(move) THEN 20 ELSE 0)
  + (IF isDevelopmentMove(move) THEN 30 ELSE 0)

\* moves.sort((a, b) => scoreB - scoreA): by falling score, moves of equal
\* score in the order they had
orderMovesAdvanced(b, engine, moves, depth) ==
  Eval(TableMove(b, getPositionKey(engine)), LAMBDA tableMove :
    Eval([i \in 1..Len(moves) |-> OrderScore(b, tableMove, moves[i], depth)],
      LAMBDA score :
        Eval([i \in 1..Len(moves) |->
                1 + Cardinality({ j \in 1..Len(moves) :
                                    \/ score[j] > score[i]
                                    \/ score[j] = score[i] /\ j < i })],
          LAMBDA place :
            [k \in 1..Len(moves) |->
               moves[CHOOSE i \in 1..Len(moves) : place[i] = k]])))

\* givesCheck(engine, move): "T", "F" or "X"
givesCheck(engine, move) ==
  Eval(makeMove(engine, move), LAMBDA made :
    IF made.result = "X" THEN "X"
    ELSE IF made.result = "F" THEN "F"
    ELSE isInCheck(made.state, made.state.turn))

\* the move array generateMoves() returns: [div, moves]
MoveList(engine) ==
  Eval(generateMoves(engine), LAMBDA generated :
    IF generated.div THEN [div |-> TRUE, moves |-> <<>>]
    ELSE [div |-> FALSE, moves |-> MoveArray(generated.moves)])

\* the depth of the search below a move of alphaBetaWithEnhancements,
\* without the decrement
DepthBelowSame(depth) == depth

\* the depth of the search below a move of alphaBetaWithEnhancements
DepthBelow(depth) == depth - 1

\* the call of alphaBetaWithEnhancements below a move of the frame f, at
\* the depth `depth` with the window (alpha, beta) of the caller negated
\* as the caller's side does it
Below(f, depth, alpha, beta, engine) ==
  IF f.isMaximizing
  THEN Frame("alphaBeta", depth, -beta, -alpha, FALSE, f.originalDepth, engine)
  ELSE Frame("alphaBeta", depth, -alpha, -beta, TRUE, f.originalDepth, engine)

\* searchAtDepth(engine, depth) from its first line to the head of its
\* loop; bestMove is moves[0] of the array before it is sorted.  An
\* exception of generateMoves() reaches the catch clause of
\* getBestMoveWithAnalysis, and so does nothing else: the position has moves
searchAtDepth0(engine, b, frames, depth) ==
  Eval(MoveList(engine), LAMBDA list :
    IF list.div \/ Len(list.moves) = 0
    THEN Running(engine, [b EXCEPT !.pc = "done", !.outcome = "caught"], frames,
                 Event("return", engine, b.bestMove, b.bestScore, depth))
    ELSE Running(engine, [b EXCEPT !.depth = depth],
           Append(frames,
             [Frame("searchAtDepth", depth, NegativeInfinity, PositiveInfinity,
                    TRUE, depth, engine)
                EXCEPT !.pc = "loop",
                       !.moves = orderMovesAdvanced(b, engine, list.moves, depth),
                       !.bestMove = list.moves[1],
                       !.bestScore = NegativeInfinity]),
           Event("searchAtDepth", engine, NoMove, 0, depth)))

\* the body of the depth loop of getBestMoveWithAnalysis after
\* searchAtDepth returned move and score, up to the next call of
\* searchAtDepth or to the return
AfterIteration(engine, b, frames, move, score) ==
  Eval([b EXCEPT !.bestMove = IF move # NoMove THEN move ELSE b.bestMove,
                 !.bestScore = IF move # NoMove THEN score ELSE b.bestScore,
                 !.searchDepth = IF move # NoMove THEN b.depth ELSE b.searchDepth],
    LAMBDA c :
      IF Abs(c.bestScore) > 19000 \/ c.depth + 1 > maxSearchDepth(c.difficulty)
      THEN Running(engine, [c EXCEPT !.pc = "done", !.outcome = "returned"],
                   frames, Event("return", engine, c.bestMove, c.bestScore, c.depth))
      ELSE searchAtDepth0(engine, c, frames, c.depth + 1))

\* evaluatePositionAdvanced(engine) as the last thing a frame does
ReturnEvaluation(engine, b, frames) ==
  Eval(evaluatePositionAdvanced(engine), LAMBDA value :
    IF value.raised
    THEN Raise(engine, b, frames, Event("raise", engine, NoMove, 0, 0))
    ELSE Return(engine, b, frames, value.score,
                Event("evaluate", engine, NoMove, value.score, 0)))

\* alphaBetaWithEnhancements from generateMoves() to the head of its loop
Expand(engine, b, frames) ==
  Eval(MoveList(engine), LAMBDA list :
    IF list.div THEN Raise(engine, b, frames, Event("raise", engine, NoMove, 0, 0))
    ELSE IF Len(list.moves) = 0 THEN ReturnEvaluation(engine, b, frames)
    ELSE Eval(Top(frames), LAMBDA f :
      Running(engine, b,
        SetTop(frames,
          [f EXCEPT !.pc = "loop",
                    !.moves = orderMovesAdvanced(b, engine, list.moves,
                                                 f.originalDepth),
                    !.i = 1, !.moveCount = 0, !.bestMove = NoMove,
                    !.bestScore = IF f.isMaximizing THEN NegativeInfinity
                                  ELSE PositiveInfinity]),
        Event("expand", engine, NoMove, 0, f.depth))))

\* the transposition-table entry answers the call: its depth is enough and
\* its flag fits the window
TableAnswers(b, key, f) ==
  /\ key \in DOMAIN b.transpositionTable
  /\ b.transpositionTable[key].depth >= f.depth
  /\ \/ b.transpositionTable[key].flag = "exact"
     \/ /\ b.transpositionTable[key].flag = "lowerbound"
        /\ b.transpositionTable[key].score >= f.beta
     \/ /\ b.transpositionTable[key].flag = "upperbound"
        /\ b.transpositionTable[key].score <= f.alpha

\* alphaBetaWithEnhancements from its first line to the null-move search,
\* to the head of its loop, or to a return before them
alphaBetaEnter(engine, b, frames) ==
  LET f == Top(frames)
      key == getPositionKey(engine)
  IN IF TableAnswers(b, key, f)
     THEN Return(engine, b, frames, b.transpositionTable[key].score,
                 Event("table", engine, NoMove, b.transpositionTable[key].score,
                       f.depth))
     ELSE IF f.depth <= 0
     THEN Running(engine, b,
            SetTop(frames, Frame("quiescence", QuiescenceDepth, f.alpha, f.beta,
                                 f.isMaximizing, f.originalDepth, engine)),
            Event("quiescence", engine, NoMove, 0, f.depth))
     ELSE Eval(isGameOver(engine), LAMBDA over :
       IF over = "X"
       THEN Raise(engine, b, frames, Event("raise", engine, NoMove, 0, 0))
       ELSE IF over = "T" THEN ReturnEvaluation(engine, b, frames)
       ELSE Eval(IF f.depth >= 3 THEN isInCheck(engine, engine.turn) ELSE "T",
         LAMBDA check :
           IF check = "X"
           THEN Raise(engine, b, frames, Event("raise", engine, NoMove, 0, 0))
           ELSE IF f.depth >= 3 /\ check = "F" /\ b.difficulty >= 6
           THEN Running(setState([engine EXCEPT !.turn = Opponent(engine.turn)]),
                  [b EXCEPT !.nullMoves = TRUE],
                  Append(SetTop(frames, [f EXCEPT !.pc = "null", !.key = key,
                                                  !.saved = copyState(engine)]),
                         Frame("alphaBeta", f.depth - 3, -f.beta, PlusOne(-f.beta),
                               ~f.isMaximizing, f.originalDepth, engine)),
                  Event("nullMove", engine, NoMove, 0, f.depth))
           ELSE Expand(engine, b, SetTop(frames, [f EXCEPT !.key = key]))))

\* the entry stored at the end of alphaBetaWithEnhancements
TableEntry(f) ==
  [depth |-> f.depth, score |-> f.bestScore,
   flag |-> IF f.bestScore <= f.alpha THEN "upperbound"
            ELSE IF f.bestScore >= f.beta THEN "lowerbound" ELSE "exact",
   bestMove |-> f.bestMove]

\* one pass through the head of the loop of alphaBetaWithEnhancements: the
\* store and the return after the last move, or makeMove and the call below
alphaBetaMove(engine, b, frames) ==
  LET f == Top(frames)
  IN IF f.i > Len(f.moves)
     THEN Eval(TableEntry(f), LAMBDA entry :
       Return(engine,
              [b EXCEPT !.transpositionTable = (f.key :> entry) @@ @],
              frames, f.bestScore,
              [Event("store", engine, f.bestMove, f.bestScore, f.depth)
                 EXCEPT !.alpha = f.alpha0, !.beta = f.beta0,
                        !.flag = entry.flag]))
     ELSE Eval(makeMove(engine, f.moves[f.i]), LAMBDA made :
       IF made.result = "X"
       THEN Raise(setState(engine), b, frames,
                  Event("raise", engine, NoMove, 0, 0))
       ELSE IF made.result = "F"
       THEN Running(setState(engine), b, SetTop(frames, [f EXCEPT !.i = f.i + 1]),
                    Event("refused", engine, f.moves[f.i], 0, f.depth))
       ELSE Eval(IF f.moveCount + 1 > 4 /\ f.depth >= 3
                    /\ f.moves[f.i].capturedPiece = NoPiece
                 THEN isInCheck(made.state, made.state.turn) ELSE "T",
         LAMBDA check :
           IF check = "X"
           THEN Raise(setState(engine), b, frames,
                      Event("raise", engine, NoMove, 0, 0))
           ELSE IF f.moveCount + 1 > 4 /\ f.depth >= 3
                   /\ f.moves[f.i].capturedPiece = NoPiece
                   /\ check = "F" /\ b.difficulty >= 7
           THEN Running(made.state, b,
                  Append(SetTop(frames, [f EXCEPT !.pc = "lmr",
                                                  !.moveCount = f.moveCount + 1,
                                                  !.saved = copyState(engine)]),
                         IF f.isMaximizing
                         THEN Frame("alphaBeta", f.depth - 2, MinusOne(-f.alpha),
                                    -f.alpha, FALSE, f.originalDepth, made.state)
                         ELSE Frame("alphaBeta", f.depth - 2, -f.beta,
                                    PlusOne(-f.beta), TRUE, f.originalDepth,
                                    made.state)),
                  Event("reduced", engine, f.moves[f.i], 0, f.depth))
           ELSE Running(made.state, b,
                  Append(SetTop(frames, [f EXCEPT !.pc = "wait",
                                                  !.moveCount = f.moveCount + 1,
                                                  !.saved = copyState(engine)]),
                         Below(f, DepthBelow(f.depth), f.alpha, f.beta,
                               made.state)),
                  Event("below", engine, f.moves[f.i], 0, f.depth))))

\* the frame of alphaBetaWithEnhancements after the score of its move
\* f.moves[f.i] is known, up to the head of its loop
Scored(engine, b, frames, score) ==
  LET f == Top(frames)
      move == f.moves[f.i]
      better == IF f.isMaximizing THEN score > f.bestScore
                ELSE score < f.bestScore
      alpha == IF f.isMaximizing THEN Max2(f.alpha, score) ELSE f.alpha
      beta == IF f.isMaximizing THEN f.beta ELSE Min2(f.beta, score)
      cut == beta <= alpha
      killers ==
        IF cut /\ move.capturedPiece = NoPiece /\ f.originalDepth < KillerSlots
        THEN [b.killerMoves EXCEPT ![f.originalDepth] =
                <<move>> \o SubSeq(@, 1, Min2(1, Len(@)))]
        ELSE b.killerMoves
  IN Running(setState(f.saved), [b EXCEPT !.killerMoves = killers],
       SetTop(frames,
         [f EXCEPT !.pc = "loop",
                   !.bestScore = IF better THEN score ELSE @,
                   !.bestMove = IF better THEN move ELSE @,
                   !.alpha = alpha, !.beta = beta,
                   !.i = IF cut THEN Len(f.moves) + 1 ELSE f.i + 1]),
       Event("scored", engine, move, score, f.depth))

\* alphaBetaWithEnhancements after a call it made returned
alphaBetaResume(engine, b, frames) ==
  LET f == Top(frames)
      score == -b.ret.value
  IN IF b.ret.kind = "raised"
     THEN Raise(setState(f.saved), b, frames, Event("raise", engine, NoMove, 0, 0))
     ELSE IF f.pc = "null"
     THEN IF score >= f.beta
          THEN Return(setState(f.saved), b, frames, f.beta,
                      Event("nullCutoff", engine, NoMove, f.beta, f.depth))
          ELSE Expand(setState(f.saved), [b EXCEPT !.ret = NoReturn], frames)
     ELSE IF f.pc = "lmr" /\ (\/ f.isMaximizing /\ score > f.alpha
                              \/ ~f.isMaximizing /\ score < f.beta)
     THEN Running(engine, b,
            Append(SetTop(frames, [f EXCEPT !.pc = "wait"]),
                   Below(f, DepthBelow(f.depth), f.alpha, f.beta, engine)),
            Event("below", engine, f.moves[f.i], 0, f.depth))
     ELSE Scored(engine, b, frames, score)

\* quiescenceSearch from its first line to the head of its loop
quiescenceEnter(engine, b, frames) ==
  LET f == Top(frames)
  IN IF f.depth <= 0 THEN ReturnEvaluation(engine, b, frames)
     ELSE Eval(evaluatePositionAdvanced(engine), LAMBDA standPat :
       IF standPat.raised
       THEN Raise(engine, b, frames, Event("raise", engine, NoMove, 0, 0))
       ELSE IF f.isMaximizing /\ standPat.score >= f.beta
       THEN Return(engine, b, frames, f.beta,
                   Event("evaluate", engine, NoMove, standPat.score, f.depth))
       ELSE IF ~f.isMaximizing /\ standPat.score <= f.alpha
       THEN Return(engine, b, frames, f.alpha,
                   Event("evaluate", engine, NoMove, standPat.score, f.depth))
       ELSE Eval(MoveList(engine), LAMBDA list :
         IF list.div
            \/ \E k \in 1..Len(list.moves) :
                  /\ list.moves[k].capturedPiece = NoPiece
                  /\ givesCheck(engine, list.moves[k]) = "X"
         THEN Raise(engine, b, frames, Event("raise", engine, NoMove, 0, 0))
         ELSE Eval(SelectSeq(list.moves,
                     LAMBDA m : \/ m.capturedPiece # NoPiece
                                \/ givesCheck(engine, m) = "T"),
           LAMBDA loud :
             Running(engine, b,
               SetTop(frames,
                 [f EXCEPT !.pc = "loop", !.i = 1,
                           !.alpha = IF f.isMaximizing
                                     THEN Max2(f.alpha, standPat.score) ELSE @,
                           !.beta = IF f.isMaximizing THEN @
                                    ELSE Min2(f.beta, standPat.score),
                           !.moves = orderMovesAdvanced(b, engine, loud, 0)]),
               Event("evaluate", engine, NoMove, standPat.score, f.depth)))))

\* one pass through the head of the loop of quiescenceSearch
quiescenceMove(engine, b, frames) ==
  LET f == Top(frames)
  IN IF f.i > Len(f.moves)
     THEN Return(engine, b, frames, IF f.isMaximizing THEN f.alpha ELSE f.beta,
                 Event("quiet", engine, NoMove, 0, f.depth))
     ELSE Eval(makeMove(engine, f.moves[f.i]), LAMBDA made :
       IF made.result = "X"
       THEN Raise(setState(engine), b, frames,
                  Event("raise", engine, NoMove, 0, 0))
       ELSE IF made.result = "F"
       THEN Running(setState(engine), b, SetTop(frames, [f EXCEPT !.i = f.i + 1]),
                    Event("refused", engine, f.moves[f.i], 0, f.depth))
       ELSE Running(made.state, b,
              Append(SetTop(frames, [f EXCEPT !.pc = "wait",
                                              !.saved = copyState(engine)]),
                     IF f.isMaximizing
                     THEN Frame("quiescence", f.depth - 1, -f.beta, -f.alpha,
                                FALSE, f.originalDepth, made.state)
                     ELSE Frame("quiescence", f.depth - 1, -f.alpha, -f.beta,
                                TRUE, f.originalDepth, made.state)),
              Event("below", engine, f.moves[f.i], 0, f.depth)))

\* quiescenceSearch after the call below a move returned
quiescenceResume(engine, b, frames) ==
  LET f == Top(frames)
      score == -b.ret.value
      alpha == IF f.isMaximizing THEN Max2(f.alpha, score) ELSE f.alpha
      beta == IF f.isMaximizing THEN f.beta ELSE Min2(f.beta, score)
  IN IF b.ret.kind = "raised"
     THEN Raise(setState(f.saved), b, frames, Event("raise", engine, NoMove, 0, 0))
     ELSE Running(setState(f.saved), b,
            SetTop(frames,
              [f EXCEPT !.pc = "loop", !.alpha = alpha, !.beta = beta,
                        !.i = IF (f.isMaximizing /\ alpha >= beta)
                                 \/ (~f.isMaximizing /\ beta <= alpha)
                              THEN Len(f.moves) + 1 ELSE f.i + 1]),
            Event("scored", engine, f.moves[f.i], score, f.depth))

\* one pass through the head of the loop of searchAtDepth: the return to
\* getBestMoveWithAnalysis after the last move, or makeMove and the call of
\* alphaBetaWithEnhancements
searchAtDepthMove(engine, b, frames) ==
  LET f == Top(frames)
  IN IF f.i > Len(f.moves)
     THEN AfterIteration(engine, b, Pop(frames), f.bestMove, f.bestScore)
     ELSE Eval(makeMove(engine, f.moves[f.i]), LAMBDA made :
       IF made.result # "T"
       THEN Running(setState(engine), b, SetTop(frames, [f EXCEPT !.i = f.i + 1]),
                    Event("refused", engine, f.moves[f.i], 0, f.depth))
       ELSE Running(made.state, b,
              Append(SetTop(frames,
                       [f EXCEPT !.pc = "wait", !.saved = copyState(engine),
                                 !.first = b.transpositionTable = <<>>]),
                     Frame("alphaBeta", f.depth - 1, NegativeInfinity,
                           PositiveInfinity, FALSE, f.depth, made.state)),
              Event("below", engine, f.moves[f.i], 0, f.depth)))

\* searchAtDepth after alphaBetaWithEnhancements returned or raised
searchAtDepthResume(engine, b, frames) ==
  LET f == Top(frames)
      score == -b.ret.value
      better == b.ret.kind = "value" /\ score > f.bestScore
  IN Running(setState(f.saved), b,
       SetTop(frames,
         [f EXCEPT !.pc = "loop", !.i = f.i + 1,
                   !.bestScore = IF better THEN score ELSE @,
                   !.bestMove = IF better THEN f.moves[f.i] ELSE @]),
       IF b.ret.kind = "raised" THEN Event("caught", engine, f.moves[f.i], 0, f.depth)
       ELSE [Event("rootScore", engine, f.moves[f.i], score, f.depth)
               EXCEPT !.first = f.first])

\* the step the machine r took
Step(r) ==
  /\ gs' = r.engine
  /\ bot' = r.bot
  /\ stack' = r.stack
  /\ last' = r.last
  /\ UNCHANGED <<pre, left, game>>

InitSearch ==
  /\ gs \in SearchPositions
  /\ pre = gs
  /\ last = Event("new", gs, NoMove, 0, 0)
  /\ left = 0
  /\ bot = SearchBot
  /\ game = NoGame
  /\ stack = <<>>

\* getBestMoveWithAnalysis(engine, level) on a position past the opening
\* book, up to the head of the loop of searchAtDepth(engine, 1)
SearchRequest ==
  /\ bot.pc = "idle"
  /\ \E level \in SearchLevels :
       \E list \in {MoveList(gs)} :
          /\ ~list.div /\ Len(list.moves) > 0
          /\ gs.fullMoveNumber > 10
          /\ Step(searchAtDepth0(gs,
                    [SearchBot EXCEPT !.pc = "search",
                                      !.difficulty = setDifficulty(level),
                                      !.bestMove = list.moves[1]],
                    <<>>, 1))

SearchAtDepthMove ==
  /\ bot.pc = "search" /\ stack # <<>>
  /\ Top(stack).fn = "searchAtDepth" /\ Top(stack).pc = "loop"
  /\ \E r \in {searchAtDepthMove(gs, bot, stack)} : Step(r)

SearchAtDepthResume ==
  /\ bot.pc = "search" /\ stack # <<>>
  /\ Top(stack).fn = "searchAtDepth" /\ Top(stack).pc = "wait"
  /\ \E r \in {searchAtDepthResume(gs, bot, stack)} : Step(r)

AlphaBetaEnter ==
  /\ bot.pc = "search" /\ stack # <<>>
  /\ Top(stack).fn = "alphaBeta" /\ Top(stack).pc = "enter"
  /\ \E r \in {alphaBetaEnter(gs, bot, stack)} : Step(r)

AlphaBetaMove ==
  /\ bot.pc = "search" /\ stack # <<>>
  /\ Top(stack).fn = "alphaBeta" /\ Top(stack).pc = "loop"
  /\ \E r \in {alphaBetaMove(gs, bot, stack)} : Step(r)

AlphaBetaResume ==
  /\ bot.pc = "search" /\ stack # <<>>
  /\ Top(stack).fn = "alphaBeta" /\ Top(stack).pc \in {"null", "lmr", "wait"}
  /\ \E r \in {alphaBetaResume(gs, bot, stack)} : Step(r)

QuiescenceEnter ==
  /\ bot.pc = "search" /\ stack # <<>>
  /\ Top(stack).fn = "quiescence" /\ Top(stack).pc = "enter"
  /\ \E r \in {quiescenceEnter(gs, bot, stack)} : Step(r)

QuiescenceMove ==
  /\ bot.pc = "search" /\ stack # <<>>
  /\ Top(stack).fn = "quiescence" /\ Top(stack).pc = "loop"
  /\ \E r \in {quiescenceMove(gs, bot, stack)} : Step(r)

QuiescenceResume ==
  /\ bot.pc = "search" /\ stack # <<>>
  /\ Top(stack).fn = "quiescence" /\ Top(stack).pc = "wait"
  /\ \E r \in {quiescenceResume(gs, bot, stack)} : Step(r)

NextSearch ==
  \/ SearchRequest \/ SearchAtDepthMove \/ SearchAtDepthResume
  \/ AlphaBetaEnter \/ AlphaBetaMove \/ AlphaBetaResume
  \/ QuiescenceEnter \/ QuiescenceMove \/ QuiescenceResume

SpecSearch == InitSearch /\ [][NextSearch]_vars

\* the search is one synchronous computation: it goes on until it returns
SpecSearchRuns == SpecSearch /\ WF_vars(NextSearch)

\* the value of a position for the side to move, as the claim states it
SideToMoveValue(state) ==
  IF isCheckmate(state) = "T" THEN -30000
  ELSE IF isStalemate(state) = "T" THEN 0
  ELSE IF state.turn = "white" THEN getMaterialScore(state)
  ELSE -getMaterialScore(state)

\* C21: evaluatePositionAdvanced scores a position from the perspective of
\* the side to move: -30000 when the side to move is checkmated, whether it
\* is White or Black, 0 for stalemate, and otherwise the white-centred sum,
\* negated when Black is to move.
C21_SideToMovePerspective ==
  last.op = "evaluate" => last.score = SideToMoveValue(last.of)

\* the frame on top has just sorted its moves
FreshlyOrdered ==
  /\ stack # <<>>
  /\ Top(stack).pc = "loop" /\ Top(stack).i = 1
  /\ last.op \in {"searchAtDepth", "expand", "evaluate"}

\* the depth argument the frame f passed to orderMovesAdvanced
OrderDepth(f) ==
  IF f.fn = "searchAtDepth" THEN f.depth
  ELSE IF f.fn = "alphaBeta" THEN f.originalDepth ELSE 0

\* the highest of the classes of the stated order a move belongs to:
\* 1 transposition-table move, 2 capture, 3 killer, 4 history, 5 promotion,
\* 6 castling, 7 central move of a minor piece, 8 development, 9 none
MoveClass(move, depth) ==
  IF TableMove(bot, getPositionKey(gs)) # NoMove
     /\ movesEqual(move, TableMove(bot, getPositionKey(gs))) THEN 1
  ELSE IF move.capturedPiece # NoPiece THEN 2
  ELSE IF depth < KillerSlots
          /\ \E k \in 1..Len(bot.killerMoves[depth]) :
                movesEqual(move, bot.killerMoves[depth][k]) THEN 3
  ELSE IF move.promotionPiece # "none" THEN 5
  ELSE IF move.isCastling THEN 6
  ELSE IF isCentralMove(move) THEN 7
  ELSE IF isDevelopmentMove(move) THEN 8
  ELSE 9

\* C22: orderMovesAdvanced returns the moves in the stated order of
\* priority: a move whose highest class is higher never comes after a move
\* whose highest class is lower, whatever the moving and captured pieces.
C22_SortedByClass ==
  FreshlyOrdered =>
    \A i, j \in 1..Len(Top(stack).moves) :
       i < j => MoveClass(Top(stack).moves[i], OrderDepth(Top(stack)))
                  <= MoveClass(Top(stack).moves[j], OrderDepth(Top(stack)))

\* the largest element of a non-empty set of numbers
Largest(values) == CHOOSE v \in values : \A w \in values : w <= v

RECURSIVE QuiescenceValue(_, _)
RECURSIVE NegamaxValue(_, _)

\* plain negamax over the captures and checks, `plies` deep, from the
\* static value
QuiescenceValue(state, plies) ==
  Eval(evaluatePositionAdvanced(state).score, LAMBDA standPat :
    IF plies <= 0 THEN standPat
    ELSE Eval(generateMoves(state).moves, LAMBDA moves :
      Largest({standPat} \cup
              { -QuiescenceValue(makeMove(state, m).state, plies - 1) :
                  m \in { n \in moves : \/ n.capturedPiece # NoPiece
                                        \/ givesCheck(state, n) = "T" } })))

\* plain negamax to `depth`: the quiescence value at depth 0, the static
\* value when the game is over, else the best of the negated values below
NegamaxValue(state, depth) ==
  IF depth <= 0 THEN QuiescenceValue(state, QuiescenceDepth)
  ELSE IF isGameOver(state) = "T" THEN evaluatePositionAdvanced(state).score
  ELSE Eval(generateMoves(state).moves, LAMBDA moves :
         Largest({ -NegamaxValue(makeMove(state, m).state, depth - 1) :
                     m \in moves }))

\* C23: with unlimited time, an empty transposition table and null-move
\* pruning and late-move reduction off (difficulty below 6), the score
\* searchAtDepth gets for a root move at depth d is the plain negamax value
\* of the subtree below the move to the same depth.
C23_RootScoreIsNegamax ==
  (last.op = "rootScore" /\ last.first /\ bot.difficulty < 6 /\ last.depth <= 2)
    => last.score = -NegamaxValue(last.of, last.depth - 1)

\* C24: the entry alphaBetaWithEnhancements stores is flagged 'exact' when
\* the best score lies strictly between the alpha and beta the node was
\* called with, 'upperbound' when no move scored above that alpha, and
\* 'lowerbound' when the node was cut off at or above that beta.
C24_FlagFitsEntryWindow ==
  (last.op = "store" /\ last.alpha < last.beta) =>
    last.flag = (IF last.score <= last.alpha THEN "upperbound"
                 ELSE IF last.score >= last.beta THEN "lowerbound"
                 ELSE "exact")

\* every call on the stack has a smaller depth than the call that made it:
\* alphaBetaWithEnhancements below searchAtDepth or below itself,
\* quiescenceSearch below itself; quiescenceSearch takes the place of the
\* call at depth <= 0 and starts at its own depth
StackDescends ==
  \A k \in 2..Len(stack) :
     /\ stack[k].depth >= 0
     /\ stack[k].fn = "alphaBeta" => stack[k].depth < stack[k - 1].depth
     /\ stack[k].fn = "quiescence" =>
          IF stack[k - 1].fn = "quiescence"
          THEN stack[k].depth < stack[k - 1].depth
          ELSE stack[k].depth = QuiescenceDepth

====
